---- MODULE Spec2Model ----
(***************************************************************************)
(* Model of the payment-reconciliation engine of spond_reporting:          *)
(* PaymentReportGenerator.process_payment_data (src/spond_reporting/       *)
(* report.py).  One run of the function is a behaviour: Init is the state  *)
(* on entry to the for-loop (arguments bound, locals zeroed), one action   *)
(* is one iteration of `for payment in payments`, and Return builds        *)
(* summary_stats.                                                          *)
(*                                                                         *)
(* Further specifications of the module:                                   *)
(*   SpecCli      the run followed by generate_excel_report and            *)
(*                print_summary, as the command line calls them            *)
(*   SpecReport   generate_excel_report and print_summary on a ledger      *)
(*   SpecMembers  the loop of SpondAPI.get_members (api.py)                *)
(*   SpecServer   the operations of SpondMCPServer (mcp_server.py) over a  *)
(*                fixed upstream service                                   *)
(*   SpecStdio    the loop of SpondMCPServer.run_stdio with                *)
(*                handle_mcp_request and handle_tool_call                  *)
(*   SpecConfig   Config.save_credentials and load_credentials (config.py) *)
(*   SpecRequest  SpondAPI._make_request (api.py)                          *)
(*                                                                         *)
(* JSON values are tagged records so that every set is homogeneous:        *)
(*   kind = "absent"  the key is missing from the dict                     *)
(*   kind = "null"    the key is present with value None                   *)
(*   kind = "junk"    a value that is not a dict (no .get method)          *)
(* Strings that are searched (titles, filter terms) are sequences of       *)
(* one-character strings.                                                  *)
(***************************************************************************)
EXTENDS Integers, Sequences, FiniteSets, TLC

(***************************************************************************)
(* Bounds of the model.                                                    *)
(***************************************************************************)
MaxPayments == 2
MaxShapePayments == 1

(***************************************************************************)
(* Markers for string-valued fields (status, memberId, currency).          *)
(***************************************************************************)
Absent == "<absent>"
Null == "<null>"

(***************************************************************************)
(* dict.get(key, default): the default is used only when the key is        *)
(* missing; a key present with value None yields None.                     *)
(***************************************************************************)
Get(value, default) == IF value = Absent THEN default ELSE value

(***************************************************************************)
(* str.lower() on the characters the model uses.                           *)
(***************************************************************************)
LowerChar(c) ==
    CASE c = "M" -> "m"
      [] c = "A" -> "a"
      [] c = "F" -> "f"
      [] c = "U" -> "u"
      [] c = "P" -> "p"
      [] c = "J" -> "j"
      [] c = "S" -> "s"
      [] OTHER -> c

lower(s) == [k \in 1..Len(s) |-> LowerChar(s[k])]

(***************************************************************************)
(* Python `sub in s` on strings: sub occurs as a contiguous slice of s.    *)
(***************************************************************************)
Contains(sub, s) ==
    \E k \in 0..(Len(s) - Len(sub)) : SubSeq(s, k + 1, k + Len(sub)) = sub

(***************************************************************************)
(* report.py:41  payment.get('title', 'Unnamed Payment')                   *)
(***************************************************************************)
UnnamedPayment ==
    << "U", "n", "n", "a", "m", "e", "d", " ", "P", "a", "y", "m", "e", "n", "t" >>

Str(s) == [kind |-> "str", chars |-> s]
AbsentText == [kind |-> "absent", chars |-> << >>]
NullText == [kind |-> "null", chars |-> << >>]

payment_name_of(payment) ==
    IF payment.title.kind = "absent" THEN Str(UnnamedPayment) ELSE payment.title

(***************************************************************************)
(* report.py:44  `if title_filters:` is true for a non-empty list only.    *)
(***************************************************************************)
NoFilters == [kind |-> "none", terms |-> << >>]
FilterList(ts) == [kind |-> "list", terms |-> ts]

FiltersGiven(tf) == tf.kind = "list" /\ Len(tf.terms) > 0

(***************************************************************************)
(* report.py:45-46  all(filter_term.lower() in payment_name_lower ...)     *)
(***************************************************************************)
AnyTermMatches(tf, name) ==
    \E k \in 1..Len(tf.terms) : Contains(lower(tf.terms[k]), lower(name))

AllTermsMatch(tf, name) ==
    \A k \in 1..Len(tf.terms) : Contains(lower(tf.terms[k]), lower(name))

(***************************************************************************)
(* report.py:74  amount = amount_pence / 100.0.  The quotient is kept      *)
(* exactly, as whole units and hundredths (2500 -> 25.00, 1050 -> 10.50).  *)
(***************************************************************************)
Amount(w, h) == [whole |-> w, hundredths |-> h]

PenceToPounds(amount_pence) == Amount(amount_pence \div 100, amount_pence % 100)

(***************************************************************************)
(* Nested recipient data: claims -> products -> price.                     *)
(***************************************************************************)
IntPrice(n) == [kind |-> "int", n |-> n]
AbsentPrice == [kind |-> "absent", n |-> 0]
NullPrice == [kind |-> "null", n |-> 0]
StrPrice == [kind |-> "str", n |-> 0]

Product(price) == [kind |-> "dict", price |-> price]
JunkProduct == [kind |-> "junk", price |-> AbsentPrice]

ListOf(items) == [kind |-> "list", items |-> items]
AbsentList == [kind |-> "absent", items |-> << >>]
NullList == [kind |-> "null", items |-> << >>]

Claim(products) == [kind |-> "dict", products |-> products]
JunkClaim == [kind |-> "junk", products |-> AbsentList]

(***************************************************************************)
(* x.get(key, []) followed by `if x and len(x) > 0`: a missing key gives   *)
(* [], None and [] are falsy.                                              *)
(***************************************************************************)
NonEmptyList(l) == l.kind = "list" /\ Len(l.items) > 0

(***************************************************************************)
(* report.py:66-74  amount extraction.  The result is [raised, amount]:    *)
(* raised = TRUE when one of the statements raises (claims[0].get on a     *)
(* non-dict, products[0].get on a non-dict, None / 100.0, 'x' / 100.0).    *)
(***************************************************************************)
AmountOk(a) == [raised |-> FALSE, amount |-> a]
AmountRaised == [raised |-> TRUE, amount |-> Amount(0, 0)]

ExtractAmount(recipient) ==
    LET claims == recipient.claims IN
    IF ~NonEmptyList(claims) THEN AmountOk(PenceToPounds(0))
    ELSE LET claim == claims.items[1] IN
      IF claim.kind # "dict" THEN AmountRaised
      ELSE LET products == claim.products IN
        IF ~NonEmptyList(products) THEN AmountOk(PenceToPounds(0))
        ELSE LET product == products.items[1] IN
          IF product.kind # "dict" THEN AmountRaised
          ELSE LET price == product.price IN
            CASE price.kind = "absent" -> AmountOk(PenceToPounds(0))
              [] price.kind = "int" -> AmountOk(PenceToPounds(price.n))
              [] OTHER -> AmountRaised

(***************************************************************************)
(* Recipients of a payment detail.                                         *)
(***************************************************************************)
Recipient(status, memberId, currency, claims) ==
    [kind |-> "dict", status |-> status, memberId |-> memberId,
     currency |-> currency, claims |-> claims]

JunkRecipient ==
    [kind |-> "junk", status |-> Absent, memberId |-> Absent,
     currency |-> Absent, claims |-> AbsentList]

Priced(n) == ListOf(<< Claim(ListOf(<< Product(IntPrice(n)) >>)) >>)

(***************************************************************************)
(* report.py:58,61  status = recipient.get('status', ''); the recipient is *)
(* unpaid when status == 'UNANSWERED'.                                     *)
(***************************************************************************)
StatusOf(recipient) == Get(recipient.status, "")

IsUnpaid_NotAnswered(recipient) == StatusOf(recipient) # "ANSWERED"

IsUnpaid(recipient) == StatusOf(recipient) = "UNANSWERED"

(***************************************************************************)
(* The member index handed to the run (member id -> display name).         *)
(***************************************************************************)
member_map == [m \in {"m1"} |-> "Alice"]

(***************************************************************************)
(* report.py:63-64  member_id = recipient.get('memberId');                 *)
(* name = member_map.get(member_id, f"Unknown ({member_id})")              *)
(***************************************************************************)
MemberIdOf(recipient) == Get(recipient.memberId, Null)

FormatId(member_id) == IF member_id = Null THEN "None" ELSE member_id

NameOf_Plain(member_id) ==
    IF member_id \in DOMAIN member_map
    THEN member_map[member_id]
    ELSE "Unknown"

NameOf(member_id) ==
    IF member_id \in DOMAIN member_map
    THEN member_map[member_id]
    ELSE "Unknown (" \o FormatId(member_id) \o ")"

(***************************************************************************)
(* report.py:77-85  the row appended for one unpaid recipient.             *)
(***************************************************************************)
Row(recipient, payment_name, payment_id, amount) ==
    [Member_Name |-> NameOf(MemberIdOf(recipient)),
     Member_ID |-> MemberIdOf(recipient),
     Payment_Name |-> payment_name,
     Payment_ID |-> payment_id,
     Amount_Owed |-> amount,
     Currency |-> Get(recipient.currency, "GBP"),
     Status |-> StatusOf(recipient)]

(***************************************************************************)
(* report.py:57-85  the loop over the recipients of one payment, from      *)
(* recipient k on.  acc = [rows, src, unpaid_count, raised, culprit]: the  *)
(* rows appended to granular_rows so far by this payment, the positions of *)
(* the recipients they come from, the local counter, whether a statement   *)
(* of the loop body raised (the loop then stops where it is; the rows      *)
(* already appended stay in granular_rows) and the position of the         *)
(* recipient it raised on.                                                 *)
(***************************************************************************)
RECURSIVE RecipientLoop(_, _, _, _, _)
RecipientLoop(items, k, payment_name, payment_id, acc) ==
    IF k > Len(items) THEN acc
    ELSE LET recipient == items[k] IN
      IF recipient.kind # "dict"
      THEN [acc EXCEPT !.raised = TRUE, !.culprit = k]
      ELSE IF ~IsUnpaid(recipient)
      THEN RecipientLoop(items, k + 1, payment_name, payment_id, acc)
      ELSE LET counted == [acc EXCEPT !.unpaid_count = @ + 1]
               extracted == ExtractAmount(recipient)
           IN IF extracted.raised
              THEN [counted EXCEPT !.raised = TRUE, !.culprit = k]
              ELSE RecipientLoop(items, k + 1, payment_name, payment_id,
                     [counted EXCEPT
                        !.rows = Append(@, Row(recipient, payment_name,
                                               payment_id, extracted.amount)),
                        !.src = Append(@, k)])

(***************************************************************************)
(* report.py:52-88  the body of the try block after a successful fetch.    *)
(* details is a dict; details.get('recipients', []) may be missing (no     *)
(* recipients), None (`for recipient in None` raises after the payment     *)
(* was counted) or a list.                                                 *)
(***************************************************************************)
EmptyAcc ==
    [rows |-> << >>, src |-> << >>, unpaid_count |-> 0, raised |-> FALSE,
     culprit |-> 0]

ProcessDetails(details, payment_name, payment_id) ==
    LET recipients == details.recipients IN
    IF recipients.kind = "null"
    THEN [EmptyAcc EXCEPT !.raised = TRUE]
    ELSE RecipientLoop(recipients.items, 1, payment_name, payment_id, EmptyAcc)

(***************************************************************************)
(* Number of recipients of a fetched detail whose status is UNANSWERED.    *)
(***************************************************************************)
UnansweredIn(details) ==
    Cardinality({k \in 1..Len(details.recipients.items) :
                   /\ details.recipients.items[k].kind = "dict"
                   /\ IsUnpaid(details.recipients.items[k])})

(***************************************************************************)
(* Inputs of a run: the payments list (ids are distinct), the title        *)
(* filters and what get_payment_details returns.                           *)
(***************************************************************************)
SeqsUpTo(S, n) == UNION {[1..m -> S] : m \in 0..n}

Titles ==
    { Str(<< "a", "m", "5" >>), Str(<< "A", "m", "4" >>), AbsentText, NullText }

PaymentInputs ==
    {[k \in 1..Len(ts) |-> [id |-> k, title |-> ts[k]]] :
        ts \in SeqsUpTo(Titles, MaxPayments)}

TitleFilterInputs ==
    { NoFilters,
      FilterList(<< >>),
      FilterList(<< << "A", "M" >> >>),
      FilterList(<< << "5" >> >>),
      FilterList(<< << "A", "M" >>, << "5" >> >>),
      FilterList(<< << "5" >>, << "a", "m" >> >>) }

Paid == Recipient("ANSWERED", "m1", Absent, Priced(2500))
Unpaid1 == Recipient("UNANSWERED", "m1", Absent, Priced(2500))
Unpaid2 == Recipient("UNANSWERED", "m7", "EUR", ListOf(<< >>))
NoStatus == Recipient(Absent, "m7", Absent, Priced(1050))
BadPrice ==
    Recipient("UNANSWERED", "m1", Absent,
              ListOf(<< Claim(ListOf(<< Product(NullPrice) >>)) >>))

RecipientLists ==
    { << >>,
      << Unpaid1 >>,
      << Paid >>,
      << Unpaid1, Unpaid2 >>,
      << Unpaid2, Unpaid1 >>,
      << Paid, Unpaid1 >>,
      << Unpaid1, Paid, Unpaid2 >>,
      << NoStatus, Paid >>,
      << Unpaid1, BadPrice >>,
      << BadPrice, Unpaid1 >>,
      << Unpaid1, JunkRecipient, Unpaid2 >>,
      << JunkRecipient >> }

(***************************************************************************)
(* Shapes of the claims and of the status of a single recipient.           *)
(***************************************************************************)
ClaimsShapes ==
    { AbsentList, NullList, ListOf(<< >>),
      ListOf(<< JunkClaim >>),
      ListOf(<< Claim(AbsentList) >>),
      ListOf(<< Claim(NullList) >>),
      ListOf(<< Claim(ListOf(<< >>)) >>),
      ListOf(<< Claim(ListOf(<< JunkProduct >>)) >>),
      ListOf(<< Claim(ListOf(<< Product(AbsentPrice) >>)) >>),
      ListOf(<< Claim(ListOf(<< Product(NullPrice) >>)) >>),
      ListOf(<< Claim(ListOf(<< Product(StrPrice) >>)) >>),
      Priced(0), Priced(1050), Priced(-500),
      ListOf(<< Claim(ListOf(<< Product(IntPrice(2500)),
                                Product(IntPrice(1050)) >>)),
                Claim(ListOf(<< Product(IntPrice(300)) >>)) >>),
      ListOf(<< Claim(ListOf(<< >>)),
                Claim(ListOf(<< Product(IntPrice(300)) >>)) >>) }

ShapeRecipients ==
    {Recipient("UNANSWERED", Absent, Absent, c) : c \in ClaimsShapes}
      \cup {Recipient(st, "m1", Absent, Priced(2500)) :
              st \in {"unanswered", "PAID", Null, ""}}

Details(recipients) == [kind |-> "dict", recipients |-> recipients]

(***************************************************************************)
(* The api_client argument is a stub that answers get_payment_details      *)
(* from one of two families: lists of several recipients, or a single      *)
(* recipient of any shape.  Runs against the second family are kept to     *)
(* MaxShapePayments payments.                                              *)
(***************************************************************************)
ApiClients == {"lists", "shapes"}

Responses(client) ==
    IF client = "lists"
    THEN {Details(AbsentList), Details(NullList)}
           \cup {Details(ListOf(rs)) : rs \in RecipientLists}
    ELSE {Details(ListOf(<< r >>)) : r \in ShapeRecipients}

(***************************************************************************)
(* State of one run of process_payment_data.                               *)
(*   payments, title_filters, api_client   the arguments                   *)
(*   idx                       number of payments the for-loop has taken   *)
(*   pc                        "loop", "returned" or "raised" (an          *)
(*                             exception left the function)                *)
(*   granular_rows, total_payments_processed, payments_with_unpaid,        *)
(*   filtered_payments, summary_stats   the locals                *)
(*   calls                     the ids passed to get_payment_details       *)
(*   row_src                   for each row, the position of the payment   *)
(*                             and the recipient it was built from         *)
(*   trace                     for each finished iteration: what happened, *)
(*                             how many recipients of the fetched detail   *)
(*                             were UNANSWERED, the recipient it raised on *)
(***************************************************************************)
VARIABLES payments, title_filters, api_client, idx, pc, granular_rows, row_src,
          total_payments_processed, payments_with_unpaid, filtered_payments,
          calls, trace, summary_stats

(***************************************************************************)
(* What the callers of the run do with its result.                         *)
(*   excel_file   what generate_excel_report returned                      *)
(*   workbook     the file it wrote (the two sheets)                       *)
(*   printed      what print_summary computed and printed                  *)
(***************************************************************************)
VARIABLES excel_file, workbook, printed

(***************************************************************************)
(* SpondAPI.get_members (api.py:91-109).                                   *)
(*   member_index   the member_map it is building (member id -> name)      *)
(*   members_seen   number of member records the for-loop has taken        *)
(*   last_member    the record taken by the latest iteration               *)
(***************************************************************************)
VARIABLES member_index, members_seen, last_member

(***************************************************************************)
(* SpondMCPServer (mcp_server.py).                                         *)
(*   api        self.api: the upstream connection, or NoApi                *)
(*   upstream   what the upstream service holds: the member index          *)
(*              get_members builds, the payments list and, for each        *)
(*              payment, the answer of get_payment_details                 *)
(*   request    the latest operation invoked and its arguments             *)
(*   response   what it returned                                           *)
(***************************************************************************)
VARIABLES api, upstream, request, response, upstream_used

(***************************************************************************)
(* SpondMCPServer.run_stdio (mcp_server.py:453-489).                       *)
(* io_pc: where the loop stands ("read": about to read a line, "handle":   *)
(* a non-blank line is being handled, "stopped": the loop was left).       *)
(* line: the line read last.  lines_read: the lines read so far.           *)
(* stdout: the response lines printed so far.                              *)
(***************************************************************************)
VARIABLES io_pc, line, lines_read, stdout

(***************************************************************************)
(* SpondAPI._make_request (api.py:55-89) and Config (config.py).           *)
(* http_log: the outcome of every request made so far.                     *)
(* config_file: the contents of ~/.spond-reporting/config.json.            *)
(* loaded: what load_credentials returned last, and the save that was the  *)
(* latest one then.  last_save: the arguments of the latest                *)
(* save_credentials call, and whether the file held a token before it.     *)
(***************************************************************************)
VARIABLES http_log, config_file, loaded, last_save

engine_vars ==
    << payments, title_filters, api_client, idx, pc, granular_rows, row_src,
       total_payments_processed, payments_with_unpaid, filtered_payments,
       calls, trace, summary_stats >>

report_vars == << excel_file, workbook, printed >>

members_vars == << member_index, members_seen, last_member >>

server_vars == << api, upstream, request, response, upstream_used >>

adapter_vars == << io_pc, line, lines_read, stdout >>

client_vars == << http_log, config_file, loaded, last_save >>

outside_vars ==
    << report_vars, members_vars, server_vars, adapter_vars, client_vars >>

vars == << payments, title_filters, api_client, idx, pc, granular_rows, row_src,
           total_payments_processed, payments_with_unpaid, filtered_payments,
           calls, trace, summary_stats, outside_vars >>

NoStats ==
    [total_payments_found |-> -1, filtered_payments |-> -1,
     total_payments_processed |-> -1, payments_with_unpaid |-> -1,
     total_unpaid_items |-> -1, title_filters |-> NoFilters]

NoRecipient ==
    [kind |-> "none", status |-> Absent, memberId |-> Absent,
     currency |-> Absent, claims |-> AbsentList]

Step(kind, unanswered, culprit) ==
    [kind |-> kind, unanswered |-> unanswered, culprit |-> culprit]

(***************************************************************************)
(* Values of the variables outside the run before anything is called.      *)
(***************************************************************************)
NotCalled == "<not called>"

NoApi == [connected |-> FALSE, bearer_token |-> Null, club_id |-> Null]

NoFile == [exists |-> FALSE, valid |-> FALSE, pairs |-> << >>]

NoCredentials == [bearer_token |-> Null, club_id |-> Null]

NoSave ==
    [called |-> FALSE, bearer_token |-> Null, club_id |-> Null,
     save_token |-> FALSE, had_token |-> FALSE]

NotLoaded == [called |-> FALSE, returned |-> NoCredentials, after |-> NoSave]

NoRequest ==
    [tool |-> "none", member_name |-> << >>,
     title_filter |-> [kind |-> "null", chars |-> << >>], limit |-> 0,
     query |-> << >>, bearer_token |-> Null, club_id |-> Null,
     creds |-> NoCredentials, built |-> TRUE]

NoResult ==
    [kind |-> "none", names |-> << >>, member_name |-> << >>, total_owed |-> 0,
     outstanding_payments_count |-> 0, payment_types |-> << >>,
     outstanding_payments |-> << >>, total_count |-> 0, truncated |-> FALSE,
     filter_applied |-> [kind |-> "null", chars |-> << >>],
     statistics |-> NoStats, total_outstanding_payments |-> 0,
     total_amount_owed |-> 0, unique_members_with_debt |-> 0,
     matching_members |-> << >>, total_matches |-> 0]

ReportIdle ==
    /\ excel_file = NotCalled
    /\ workbook = [exists |-> FALSE, path |-> Null, summary |-> << >>,
                   details |-> << >>]
    /\ printed = [called |-> FALSE, none_found |-> FALSE, summary |-> << >>]

MembersIdle ==
    /\ member_index = [m \in {} |-> << >>]
    /\ members_seen = 0
    /\ last_member = [id |-> Absent,
                      name |-> [kind |-> "none", chars |-> << >>],
                      firstName |-> [kind |-> "none", chars |-> << >>],
                      lastName |-> [kind |-> "none", chars |-> << >>]]

ServerIdle ==
    /\ api = NoApi
    /\ upstream = [members |-> << >>, payments |-> << >>, details |-> << >>]
    /\ request = NoRequest
    /\ response = NoResult
    /\ upstream_used = FALSE

AdapterIdle ==
    /\ io_pc = "idle"
    /\ line = [kind |-> "none"]
    /\ lines_read = << >>
    /\ stdout = << >>

ClientIdle ==
    /\ http_log = << >>
    /\ config_file = NoFile
    /\ loaded = NotLoaded
    /\ last_save = NoSave

OutsideIdle ==
    ReportIdle /\ MembersIdle /\ ServerIdle /\ AdapterIdle /\ ClientIdle

(***************************************************************************)
(* report.py:30-33  entry to the function.                                 *)
(***************************************************************************)
Init ==
    /\ payments \in PaymentInputs
    /\ title_filters \in TitleFilterInputs
    /\ api_client \in ApiClients
    /\ api_client = "shapes" => Len(payments) <= MaxShapePayments
    /\ idx = 0
    /\ pc = "loop"
    /\ granular_rows = << >>
    /\ row_src = << >>
    /\ total_payments_processed = 0
    /\ payments_with_unpaid = 0
    /\ filtered_payments = 0
    /\ calls = << >>
    /\ trace = << >>
    /\ summary_stats = NoStats
    /\ OutsideIdle

payment == payments[idx + 1]
payment_id == payment.id
payment_name == payment_name_of(payment)

InLoop == pc = "loop" /\ idx < Len(payments)

(***************************************************************************)
(* report.py:44-46  the filter test of the current payment.                *)
(***************************************************************************)
FilterRaises == FiltersGiven(title_filters) /\ payment_name.kind # "str"

FilteredOut ==
    /\ FiltersGiven(title_filters)
    /\ payment_name.kind = "str"
    /\ ~AllTermsMatch(title_filters, payment_name.chars)

Reconciled == ~FilterRaises /\ ~FilteredOut

(***************************************************************************)
(* report.py:45  payment_name.lower() on a None title raises               *)
(* AttributeError outside the try block: the exception leaves the          *)
(* function and nothing is returned.                                       *)
(***************************************************************************)
TitleError ==
    /\ InLoop
    /\ FilterRaises
    /\ pc' = "raised"
    /\ UNCHANGED << payments, title_filters, api_client, idx, granular_rows, row_src,
                    total_payments_processed, payments_with_unpaid,
                    filtered_payments, calls, trace, summary_stats >>
    /\ UNCHANGED outside_vars

(***************************************************************************)
(* report.py:44-48  the payment does not contain every filter term.        *)
(***************************************************************************)
FilterOut ==
    /\ InLoop
    /\ FilteredOut
    /\ filtered_payments' = filtered_payments + 1
    /\ idx' = idx + 1
    /\ trace' = Append(trace, Step("filtered", 0, NoRecipient))
    /\ UNCHANGED << payments, title_filters, api_client, pc, granular_rows, row_src,
                    total_payments_processed, payments_with_unpaid,
                    calls, summary_stats >>
    /\ UNCHANGED outside_vars

(***************************************************************************)
(* report.py:51,91-93  get_payment_details raises; the except clause       *)
(* prints a warning and continues with the next payment.                   *)
(***************************************************************************)
FetchFails_Abort ==
    /\ InLoop
    /\ Reconciled
    /\ calls' = Append(calls, payment_id)
    /\ trace' = Append(trace, Step("fetch_failed", 0, NoRecipient))
    /\ pc' = "raised"
    /\ UNCHANGED << payments, title_filters, api_client, idx, granular_rows,
                    row_src, total_payments_processed, payments_with_unpaid,
                    filtered_payments, summary_stats >>
    /\ UNCHANGED outside_vars

FetchFails_Retry ==
    /\ InLoop
    /\ Reconciled
    /\ calls' = calls \o << payment_id, payment_id >>
    /\ idx' = idx + 1
    /\ trace' = Append(trace, Step("fetch_failed", 0, NoRecipient))
    /\ UNCHANGED << payments, title_filters, api_client, pc, granular_rows,
                    row_src, total_payments_processed, payments_with_unpaid,
                    filtered_payments, summary_stats >>
    /\ UNCHANGED outside_vars

FetchFails_Counted ==
    /\ InLoop
    /\ Reconciled
    /\ calls' = Append(calls, payment_id)
    /\ idx' = idx + 1
    /\ total_payments_processed' = total_payments_processed + 1
    /\ trace' = Append(trace, Step("fetch_failed", 0, NoRecipient))
    /\ UNCHANGED << payments, title_filters, api_client, pc, granular_rows,
                    row_src, payments_with_unpaid, filtered_payments,
                    summary_stats >>
    /\ UNCHANGED outside_vars

FetchFails ==
    /\ InLoop
    /\ Reconciled
    /\ calls' = Append(calls, payment_id)
    /\ idx' = idx + 1
    /\ trace' = Append(trace, Step("fetch_failed", 0, NoRecipient))
    /\ UNCHANGED << payments, title_filters, api_client, pc, granular_rows, row_src,
                    total_payments_processed, payments_with_unpaid,
                    filtered_payments, summary_stats >>
    /\ UNCHANGED outside_vars

(***************************************************************************)
(* report.py:77  granular_rows.append(...): the rows of a payment go to    *)
(* the end of the ledger.                                                  *)
(***************************************************************************)
Prepended(ledger, rows) == rows \o ledger

Appended(ledger, rows) == ledger \o rows

(***************************************************************************)
(* report.py:51-93  get_payment_details returns d; the recipients are      *)
(* processed.  When a statement of the try block raises, the except        *)
(* clause continues with the next payment: what was assigned before the    *)
(* exception stays assigned.                                               *)
(***************************************************************************)
ProcessPayment(d) ==
    /\ InLoop
    /\ Reconciled
    /\ LET result == ProcessDetails(d, payment_name, payment_id) IN
       /\ calls' = Append(calls, payment_id)
       /\ total_payments_processed' = total_payments_processed + 1
       /\ granular_rows' = Appended(granular_rows, result.rows)
       /\ row_src' = Appended(row_src,
            [k \in 1..Len(result.src) |->
               [payment |-> idx + 1,
                position |-> result.src[k],
                recipient |-> d.recipients.items[result.src[k]]]])
       /\ payments_with_unpaid' =
            IF ~result.raised /\ result.unpaid_count > 0
            THEN payments_with_unpaid + 1
            ELSE payments_with_unpaid
       /\ trace' = Append(trace,
            Step(IF result.raised THEN "failed" ELSE "processed",
                 UnansweredIn(d),
                 IF result.culprit = 0 THEN NoRecipient
                 ELSE d.recipients.items[result.culprit]))
    /\ idx' = idx + 1
    /\ UNCHANGED << payments, title_filters, api_client, pc, filtered_payments, summary_stats >>
    /\ UNCHANGED outside_vars

(***************************************************************************)
(* report.py:95-104  the loop is over: build summary_stats and return.     *)
(***************************************************************************)
Return ==
    /\ pc = "loop"
    /\ idx = Len(payments)
    /\ summary_stats' =
         [total_payments_found |-> Len(payments),
          filtered_payments |-> filtered_payments,
          total_payments_processed |-> total_payments_processed,
          payments_with_unpaid |-> payments_with_unpaid,
          total_unpaid_items |-> Len(granular_rows),
          title_filters |-> title_filters]
    /\ pc' = "returned"
    /\ UNCHANGED << payments, title_filters, api_client, idx, granular_rows, row_src,
                    total_payments_processed, payments_with_unpaid,
                    filtered_payments, calls, trace >>
    /\ UNCHANGED outside_vars

Next ==
    \/ TitleError
    \/ FilterOut
    \/ FetchFails
    \/ \E d \in Responses(api_client) : ProcessPayment(d)
    \/ Return

Spec == Init /\ [][Next]_vars

(***************************************************************************)
(* report.py:129-130,158-159  df.groupby(['Member Name', 'Member ID',      *)
(* 'Currency'], as_index=False)['Amount Owed'].sum().  pandas leaves out   *)
(* of the groups every row with a None in one of the key columns (dropna   *)
(* defaults to True).                                                      *)
(***************************************************************************)
GroupKey(row) ==
    [Member_Name |-> row.Member_Name, Member_ID |-> row.Member_ID,
     Currency |-> row.Currency]

HasNullKey(row) == Null \in {row.Member_Name, row.Member_ID, row.Currency}

Pence(amount) == 100 * amount.whole + amount.hundredths

RECURSIVE GroupSum(_, _)
GroupSum(ledger, key) ==
    IF ledger = << >> THEN 0
    ELSE (IF GroupKey(Head(ledger)) = key THEN Pence(Head(ledger).Amount_Owed) ELSE 0)
           + GroupSum(Tail(ledger), key)

GroupBy(ledger) ==
    LET keys == {GroupKey(ledger[k]) : k \in {n \in 1..Len(ledger) : ~HasNullKey(ledger[n])}}
    IN {[Member_Name |-> key.Member_Name, Member_ID |-> key.Member_ID,
         Currency |-> key.Currency,
         Amount_Owed |-> PenceToPounds(GroupSum(ledger, key))] : key \in keys}

(***************************************************************************)
(* report.py:131,160  summary.sort_values(by='Amount Owed',                *)
(* ascending=False).  The default sort kind is not stable: entries with    *)
(* equal sums may come out in any order.                                   *)
(***************************************************************************)
SortValues(groups) ==
    {s \in [1..Cardinality(groups) -> groups] :
        /\ \A i, j \in 1..Cardinality(groups) : i # j => s[i] # s[j]
        /\ \A i, j \in 1..Cardinality(groups) :
             i < j => Pence(s[i].Amount_Owed) >= Pence(s[j].Amount_Owed)}

(***************************************************************************)
(* report.py:118-119  output_path defaults to 'spond_payment_report.xlsx'. *)
(***************************************************************************)
OutputPaths == {Null, "out.xlsx"}

ResolvedPath(output_path) ==
    IF output_path = Null THEN "spond_payment_report.xlsx" ELSE output_path

(***************************************************************************)
(* report.py:106-138  generate_excel_report(granular_rows, output_path).   *)
(* An empty ledger gives an empty DataFrame: None is returned and nothing  *)
(* is written.  Otherwise the Summary and Granular Details sheets are      *)
(* written to output_path, which is returned.                              *)
(***************************************************************************)
GenerateExcelReport_AlwaysWrites(output_path) ==
    /\ pc = "returned"
    /\ excel_file = NotCalled
    /\ \E summary \in SortValues(GroupBy(granular_rows)) :
         workbook' = [exists |-> TRUE, path |-> ResolvedPath(output_path),
                      summary |-> summary, details |-> granular_rows]
    /\ excel_file' = ResolvedPath(output_path)
    /\ UNCHANGED << engine_vars, printed, members_vars, server_vars, adapter_vars, client_vars >>

GenerateExcelReport(output_path) ==
    /\ pc = "returned"
    /\ excel_file = NotCalled
    /\ IF granular_rows = << >>
       THEN /\ excel_file' = Null
            /\ UNCHANGED workbook
       ELSE /\ \E summary \in SortValues(GroupBy(granular_rows)) :
                 workbook' = [exists |-> TRUE, path |-> ResolvedPath(output_path),
                              summary |-> summary, details |-> granular_rows]
            /\ excel_file' = ResolvedPath(output_path)
    /\ UNCHANGED << engine_vars, printed, members_vars, server_vars, adapter_vars, client_vars >>

(***************************************************************************)
(* report.py:140-165  print_summary(granular_rows, summary_stats): the     *)
(* statistics are printed, then the same aggregation, or 'No outstanding   *)
(* payments found.' for an empty ledger.                                   *)
(***************************************************************************)
PrintSummary ==
    /\ pc = "returned"
    /\ ~printed.called
    /\ IF granular_rows = << >>
       THEN printed' = [called |-> TRUE, none_found |-> TRUE, summary |-> << >>]
       ELSE \E summary \in SortValues(GroupBy(granular_rows)) :
              printed' = [called |-> TRUE, none_found |-> FALSE, summary |-> summary]
    /\ UNCHANGED << engine_vars, excel_file, workbook, members_vars, server_vars,
                  adapter_vars, client_vars >>

(***************************************************************************)
(* cli.py:138-147  the command line runs process_payment_data and hands    *)
(* its ledger to generate_excel_report and print_summary.                  *)
(***************************************************************************)
MaxCliPayments == 1

InitCli == Init /\ Len(payments) <= MaxCliPayments

NextCli ==
    \/ Next
    \/ \E output_path \in OutputPaths : GenerateExcelReport(output_path)
    \/ PrintSummary

SpecCli == InitCli /\ [][NextCli]_vars

(***************************************************************************)
(* generate_excel_report and print_summary called on a ledger of up to     *)
(* MaxLedger rows, as process_payment_data builds them for the recipients  *)
(* below.                                                                  *)
(***************************************************************************)
MaxLedger == 3

LedgerRows ==
    {Row(r, payment_name_of([id |-> 1, title |-> Str(<< "a", "m", "5" >>)]), 1,
         ExtractAmount(r).amount) :
       r \in {Unpaid1, Unpaid2,
               Recipient("UNANSWERED", "m7", "EUR", Priced(2500)),
               Recipient("UNANSWERED", "m1", Absent, Priced(1050)),
               Recipient("UNANSWERED", Absent, Absent, Priced(1050))}}

LedgerInputs == SeqsUpTo(LedgerRows, MaxLedger)

EngineArguments ==
    /\ payments = << >>
    /\ title_filters = NoFilters
    /\ api_client = "lists"

EngineLocals ==
    /\ idx = 0
    /\ row_src = << >>
    /\ total_payments_processed = 0
    /\ payments_with_unpaid = 0
    /\ filtered_payments = 0
    /\ calls = << >>
    /\ trace = << >>
    /\ summary_stats = NoStats

InitReport ==
    /\ granular_rows \in LedgerInputs
    /\ pc = "returned"
    /\ EngineArguments
    /\ EngineLocals
    /\ OutsideIdle

NextReport ==
    \/ \E output_path \in OutputPaths : GenerateExcelReport(output_path)
    \/ PrintSummary

SpecReport == InitReport /\ [][NextReport]_vars

(***************************************************************************)
(* api.py:104-105  the fields of a member record.  A text field is         *)
(* missing, None or a string (a sequence of characters).                   *)
(***************************************************************************)
Member(id, name, firstName, lastName) ==
    [id |-> id, name |-> name, firstName |-> firstName, lastName |-> lastName]

(***************************************************************************)
(* api.py:105  f"{member.get('firstName', '')} {member.get('lastName',     *)
(* '')}": a missing field is formatted as '', a None field as 'None'.      *)
(***************************************************************************)
FormatText(value) ==
    CASE value.kind = "absent" -> << >>
      [] value.kind = "null" -> << "N", "o", "n", "e" >>
      [] OTHER -> value.chars

(***************************************************************************)
(* str.strip(): leading and trailing blanks are removed.                   *)
(***************************************************************************)
RECURSIVE lstrip(_)
lstrip(s) == IF s # << >> /\ Head(s) = " " THEN lstrip(Tail(s)) ELSE s

RECURSIVE rstrip(_)
rstrip(s) ==
    IF s # << >> /\ s[Len(s)] = " " THEN rstrip(SubSeq(s, 1, Len(s) - 1)) ELSE s

strip(s) == rstrip(lstrip(s))

(***************************************************************************)
(* api.py:104-106  member_id = member.get('id');                           *)
(* name = member.get('name') or f"...".strip();  if member_id and name.    *)
(* `or` takes the formatted first and last name whenever 'name' is         *)
(* missing, None or ''; strip applies to the formatted text only.          *)
(***************************************************************************)
Truthy(value) == value.kind = "str" /\ value.chars # << >>

ResolveName(member) ==
    IF Truthy(member.name)
    THEN member.name.chars
    ELSE strip(FormatText(member.firstName) \o << " " >> \o FormatText(member.lastName))

TruthyId(member_id) == member_id \notin {Absent, Null, ""}

Put(map, key, value) ==
    [k \in DOMAIN map \cup {key} |-> IF k = key THEN value ELSE map[k]]

(***************************************************************************)
(* The member records the upstream service may return.                     *)
(***************************************************************************)
MaxMembers == 2

MemberRecords ==
    {Member(id, name, firstName, lastName) :
       id \in {Absent, Null, "", "m1", "m2"},
       name \in {AbsentText, NullText, Str(<< >>), Str(<< " " >>), Str(<< "J", "o" >>)},
       firstName \in {AbsentText, NullText, Str(<< >>), Str(<< "A", "l" >>)},
       lastName \in {AbsentText, NullText, Str(<< "L", "i", " " >>)}}

(***************************************************************************)
(* api.py:103-107  one iteration of `for member in members`.               *)
(***************************************************************************)
GetMembersStep(member) ==
    /\ members_seen < MaxMembers
    /\ members_seen' = members_seen + 1
    /\ last_member' = member
    /\ LET member_id == member.id
           name == ResolveName(member)
       IN IF TruthyId(member_id) /\ name # << >>
          THEN member_index' = Put(member_index, member_id, name)
          ELSE UNCHANGED member_index
    /\ UNCHANGED << engine_vars, report_vars, server_vars, adapter_vars, client_vars >>

InitMembers ==
    /\ EngineArguments
    /\ EngineLocals
    /\ granular_rows = << >>
    /\ pc = "idle"
    /\ OutsideIdle

NextMembers == \E member \in MemberRecords : GetMembersStep(member)

SpecMembers == InitMembers /\ [][NextMembers]_vars

(***************************************************************************)
(* report.py:16-104  process_payment_data as one call: the loop of the     *)
(* actions above run to its end over pays, with answers[k] what            *)
(* get_payment_details gives for payment k (a details dict, or FetchError  *)
(* when the call raises).  run.raised: an exception left the function.     *)
(***************************************************************************)
FetchError == [kind |-> "error", recipients |-> AbsentList]

EmptyRun ==
    [rows |-> << >>, total_payments_processed |-> 0, payments_with_unpaid |-> 0,
     filtered_payments |-> 0, calls |-> << >>, raised |-> FALSE,
     summary_stats |-> NoStats]

RECURSIVE EngineLoop(_, _, _, _, _)
EngineLoop(pays, tf, answers, k, run) ==
    IF k > Len(pays) THEN run
    ELSE LET name == payment_name_of(pays[k]) IN
      IF FiltersGiven(tf) /\ name.kind # "str"
      THEN [run EXCEPT !.raised = TRUE]
      ELSE IF FiltersGiven(tf) /\ ~AllTermsMatch(tf, name.chars)
      THEN EngineLoop(pays, tf, answers, k + 1,
                      [run EXCEPT !.filtered_payments = @ + 1])
      ELSE IF answers[k].kind = "error"
      THEN EngineLoop(pays, tf, answers, k + 1,
                      [run EXCEPT !.calls = Append(@, pays[k].id)])
      ELSE LET done == ProcessDetails(answers[k], name, pays[k].id) IN
           EngineLoop(pays, tf, answers, k + 1,
                      [run EXCEPT
                         !.calls = Append(@, pays[k].id),
                         !.total_payments_processed = @ + 1,
                         !.rows = Appended(@, done.rows),
                         !.payments_with_unpaid =
                            IF ~done.raised /\ done.unpaid_count > 0
                            THEN @ + 1 ELSE @])

process_payment_data(pays, tf, answers) ==
    LET run == EngineLoop(pays, tf, answers, 1, EmptyRun) IN
    IF run.raised THEN run
    ELSE [run EXCEPT !.summary_stats =
            [total_payments_found |-> Len(pays),
             filtered_payments |-> run.filtered_payments,
             total_payments_processed |-> run.total_payments_processed,
             payments_with_unpaid |-> run.payments_with_unpaid,
             total_unpaid_items |-> Len(run.rows),
             title_filters |-> tf]]

(***************************************************************************)
(* What a server operation leaves in the variables of the run: the         *)
(* arguments and results of its call of process_payment_data, or nothing   *)
(* when it returns before that call.                                       *)
(***************************************************************************)
EngineRan(pays, run) ==
    /\ payments' = pays
    /\ title_filters' = NoFilters
    /\ idx' = Len(pays)
    /\ pc' = "returned"
    /\ granular_rows' = run.rows
    /\ total_payments_processed' = run.total_payments_processed
    /\ payments_with_unpaid' = run.payments_with_unpaid
    /\ filtered_payments' = run.filtered_payments
    /\ calls' = run.calls
    /\ summary_stats' = run.summary_stats
    /\ UNCHANGED << api_client, row_src, trace >>

EngineNotRun ==
    /\ payments' = << >>
    /\ title_filters' = NoFilters
    /\ idx' = 0
    /\ pc' = "idle"
    /\ granular_rows' = << >>
    /\ total_payments_processed' = 0
    /\ payments_with_unpaid' = 0
    /\ filtered_payments' = 0
    /\ calls' = << >>
    /\ summary_stats' = NoStats
    /\ UNCHANGED << api_client, row_src, trace >>

(***************************************************************************)
(* mcp_server.py:102-118  initialize_api(bearer_token, club_id): missing   *)
(* arguments are taken from the stored credentials; self.api is replaced   *)
(* when both are available, otherwise False is returned.  built = FALSE:   *)
(* load_credentials or the construction of SpondAPI raises, which the      *)
(* except clause turns into False.                                         *)
(***************************************************************************)
StoredCredentials ==
    { [bearer_token |-> Null, club_id |-> Null],
      [bearer_token |-> Null, club_id |-> "clubC"],
      [bearer_token |-> "tokC", club_id |-> "clubC"] }

Or(a, b) == IF a \in {Absent, Null, ""} THEN b ELSE a

NoValue(a) == a \in {Absent, Null, ""}

initialize_api_Forgets(self_api, bearer_token, club_id, creds, built) ==
    LET needs == NoValue(bearer_token) \/ NoValue(club_id)
        token == IF needs THEN Or(bearer_token, Get(creds.bearer_token, Null))
                 ELSE bearer_token
        club == IF needs THEN Or(club_id, Get(creds.club_id, Null)) ELSE club_id
    IN IF NoValue(token) \/ NoValue(club) \/ ~built
       THEN [returned |-> FALSE, api |-> NoApi]
       ELSE [returned |-> TRUE,
             api |-> [connected |-> TRUE, bearer_token |-> token, club_id |-> club]]

initialize_api(self_api, bearer_token, club_id, creds, built) ==
    LET needs == NoValue(bearer_token) \/ NoValue(club_id)
        token == IF needs THEN Or(bearer_token, Get(creds.bearer_token, Null))
                 ELSE bearer_token
        club == IF needs THEN Or(club_id, Get(creds.club_id, Null)) ELSE club_id
    IN IF NoValue(token) \/ NoValue(club) \/ ~built
       THEN [returned |-> FALSE, api |-> self_api]
       ELSE [returned |-> TRUE,
             api |-> [connected |-> TRUE, bearer_token |-> token, club_id |-> club]]

InitializeApi(bearer_token, club_id, creds, built) ==
    /\ LET done == initialize_api(api, bearer_token, club_id, creds, built)
       IN /\ response' = [NoResult EXCEPT
                            !.kind = IF done.returned THEN "True" ELSE "False"]
          /\ api' = done.api
    /\ request' = [NoRequest EXCEPT !.tool = "initialize_api",
                                    !.bearer_token = bearer_token,
                                    !.club_id = club_id,
                                    !.creds = creds, !.built = built]
    /\ upstream_used' = FALSE
    /\ UNCHANGED << engine_vars, report_vars, members_vars, upstream,
                    adapter_vars, client_vars >>

(***************************************************************************)
(* mcp_server.py:131-136  the entries of member_map, in its order, whose   *)
(* name contains member_name, both lower-cased.                            *)
(***************************************************************************)
MatchingMembers_CaseSensitive(index, member_name) ==
    LET Matches(entry) == Contains(member_name, entry.name)
    IN SelectSeq(index, Matches)

MatchingMembers(index, member_name) ==
    LET Matches(entry) == Contains(lower(member_name), lower(entry.name))
    IN SelectSeq(index, Matches)

NamesOf(entries) == [k \in 1..Len(entries) |-> entries[k].name]

(***************************************************************************)
(* Python slice s[:n] for n >= 0.                                          *)
(***************************************************************************)
FirstN(s, n) == SubSeq(s, 1, IF Len(s) < n THEN Len(s) ELSE n)

MaxExamples == 10

(***************************************************************************)
(* row.get(key, default) on a ledger row.  The rows built by               *)
(* process_payment_data (report.py:77-85) have the keys 'Member Name',     *)
(* 'Member ID', 'Payment Name', 'Payment ID', 'Amount Owed', 'Currency'    *)
(* and 'Status'; the server reads 'Amount', 'Payment Title', 'Due Date'    *)
(* and 'Description'.                                                      *)
(***************************************************************************)
RowGet(row, key, default) == IF key \in DOMAIN row THEN row[key] ELSE default

FloatAmount(row) == IF "Amount" \in DOMAIN row THEN Pence(row["Amount"]) ELSE 0

Unknown == Str(<< "U", "n", "k", "n", "o", "w", "n" >>)

AmountField(row) ==
    IF "Amount" \in DOMAIN row
    THEN [kind |-> "float", pence |-> Pence(row["Amount"])]
    ELSE [kind |-> "null", pence |-> 0]

(***************************************************************************)
(* mcp_server.py:166-184  the breakdown by payment type, in the order in   *)
(* which the types first occur; amounts in hundredths.                     *)
(***************************************************************************)
RECURSIVE GroupByType(_, _)
GroupByType(member_payments, payment_types) ==
    IF member_payments = << >> THEN payment_types
    ELSE LET p == Head(member_payments)
             payment_type == RowGet(p, "Payment_Title", Unknown)
             item == [title |-> RowGet(p, "Payment_Title", NullText),
                      amount |-> AmountField(p),
                      due_date |-> RowGet(p, "Due_Date", Null),
                      description |-> RowGet(p, "Description", "")]
             known == \E k \in 1..Len(payment_types) :
                         payment_types[k].payment_type = payment_type
             started ==
                 IF known THEN payment_types
                 ELSE Append(payment_types,
                             [payment_type |-> payment_type, count |-> 0,
                              total_amount |-> 0, payments |-> << >>])
         IN GroupByType(Tail(member_payments),
              [k \in 1..Len(started) |->
                 IF started[k].payment_type = payment_type
                 THEN [started[k] EXCEPT !.count = @ + 1,
                                         !.total_amount = @ + FloatAmount(p),
                                         !.payments = Append(@, item)]
                 ELSE started[k]])

RECURSIVE SumAmounts(_)
SumAmounts(member_payments) ==
    IF member_payments = << >> THEN 0
    ELSE FloatAmount(Head(member_payments)) + SumAmounts(Tail(member_payments))

(***************************************************************************)
(* mcp_server.py:120-198  get_member_payment_summary(member_name).         *)
(* conn: self.api when the operation is called.  upstream_ok = FALSE:      *)
(* get_members or get_payments raises, which the except clauses turn into  *)
(* an error result.  upstream_used: the operation called the upstream      *)
(* service (get_members is its first call once self.api is set).           *)
(* Connected(conn): the test `if not self.api` of lines 122, 202, 253 and  *)
(* 318 lets the operation go on.                                           *)
(***************************************************************************)
Connected_Always(conn) == TRUE

Connected(conn) == conn.connected

ApiNotInitialized == [NoResult EXCEPT !.kind = "error: API not initialized"]

UpstreamError == [NoResult EXCEPT !.kind = "error: Spond API Error"]

GetMemberPaymentSummary(conn, member_name, upstream_ok) ==
    /\ request' = [NoRequest EXCEPT !.tool = "get_member_payment_summary",
                                    !.member_name = member_name]
    /\ upstream_used' = Connected(conn)
    /\ IF ~Connected(conn)
       THEN response' = ApiNotInitialized /\ EngineNotRun
       ELSE IF ~upstream_ok
       THEN response' = UpstreamError /\ EngineNotRun
       ELSE LET member_map_ == upstream.members
                matching_members == MatchingMembers(member_map_, member_name)
            IN IF matching_members = << >>
               THEN /\ response' =
                         [NoResult EXCEPT
                            !.kind = "error: No members found",
                            !.names = FirstN(NamesOf(member_map_), MaxExamples)]
                    /\ EngineNotRun
               ELSE IF Len(matching_members) > 1
               THEN /\ response' =
                         [NoResult EXCEPT
                            !.kind = "error: Multiple members found",
                            !.names = NamesOf(matching_members)]
                    /\ EngineNotRun
               ELSE LET member_id == matching_members[1].id
                        full_name == matching_members[1].name
                        run == process_payment_data(upstream.payments, NoFilters,
                                                    upstream.details)
                        IsOfMember(row) == row.Member_ID = member_id
                        member_payments == SelectSeq(run.rows, IsOfMember)
                    IN /\ EngineRan(upstream.payments, run)
                       /\ IF member_payments = << >>
                          THEN response' =
                                 [NoResult EXCEPT
                                    !.kind = "no outstanding payments",
                                    !.member_name = full_name,
                                    !.total_owed = 0]
                          ELSE response' =
                                 [NoResult EXCEPT
                                    !.kind = "summary",
                                    !.member_name = full_name,
                                    !.total_owed = SumAmounts(member_payments),
                                    !.outstanding_payments_count = Len(member_payments),
                                    !.payment_types = GroupByType(member_payments, << >>)]
    /\ UNCHANGED << report_vars, members_vars, upstream, client_vars >>

(***************************************************************************)
(* mcp_server.py:200-249  get_all_outstanding_payments(title_filter,       *)
(* limit).  The engine is called without title filters; `if title_filter`  *)
(* and `if limit` are false for None, '' and 0.                            *)
(***************************************************************************)
FormattedPayment(row) ==
    [member_name |-> row.Member_Name,
     payment_title |-> RowGet(row, "Payment_Title", NullText),
     amount |-> AmountField(row),
     due_date |-> RowGet(row, "Due_Date", Null),
     description |-> RowGet(row, "Description", "")]

TitleFilterApplies(title_filter, row) ==
    Contains(lower(title_filter.chars),
             lower(RowGet(row, "Payment_Title", Str(<< >>)).chars))

GetAllOutstandingPayments(conn, title_filter, limit, upstream_ok) ==
    /\ request' = [NoRequest EXCEPT !.tool = "get_all_outstanding_payments",
                                    !.title_filter = title_filter,
                                    !.limit = limit]
    /\ upstream_used' = Connected(conn)
    /\ IF ~Connected(conn)
       THEN response' = ApiNotInitialized /\ EngineNotRun
       ELSE IF ~upstream_ok
       THEN response' = UpstreamError /\ EngineNotRun
       ELSE LET run == process_payment_data(upstream.payments, NoFilters,
                                            upstream.details)
                Passes(row) == TitleFilterApplies(title_filter, row)
                filtered == IF Truthy(title_filter)
                            THEN SelectSeq(run.rows, Passes)
                            ELSE run.rows
                cut == limit # 0 /\ Len(filtered) > limit
                limited == IF cut THEN FirstN(filtered, limit) ELSE filtered
            IN /\ EngineRan(upstream.payments, run)
               /\ response' =
                    [NoResult EXCEPT
                       !.kind = "outstanding payments",
                       !.outstanding_payments =
                          [k \in 1..Len(limited) |-> FormattedPayment(limited[k])],
                       !.total_count = Len(limited),
                       !.truncated = cut,
                       !.filter_applied = title_filter,
                       !.statistics = run.summary_stats]
    /\ UNCHANGED << report_vars, members_vars, upstream, client_vars >>

(***************************************************************************)
(* mcp_server.py:251-314  get_payment_statistics(title_filter).  The       *)
(* breakdown is built as in get_member_payment_summary, without the list   *)
(* of payments; round(x, 2) leaves a sum of hundredths as it is.           *)
(***************************************************************************)
GetPaymentStatistics(conn, title_filter, upstream_ok) ==
    /\ request' = [NoRequest EXCEPT !.tool = "get_payment_statistics",
                                    !.title_filter = title_filter]
    /\ upstream_used' = Connected(conn)
    /\ IF ~Connected(conn)
       THEN response' = ApiNotInitialized /\ EngineNotRun
       ELSE IF ~upstream_ok
       THEN response' = UpstreamError /\ EngineNotRun
       ELSE LET run == process_payment_data(upstream.payments, NoFilters,
                                            upstream.details)
                Passes(row) == TitleFilterApplies(title_filter, row)
                filtered_rows == IF Truthy(title_filter)
                                 THEN SelectSeq(run.rows, Passes)
                                 ELSE run.rows
                groups == GroupByType(filtered_rows, << >>)
            IN /\ EngineRan(upstream.payments, run)
               /\ IF filtered_rows = << >>
                  THEN response' = [NoResult EXCEPT
                                      !.kind = "statistics",
                                      !.filter_applied = title_filter]
                  ELSE response' =
                         [NoResult EXCEPT
                            !.kind = "statistics",
                            !.total_outstanding_payments = Len(filtered_rows),
                            !.total_amount_owed = SumAmounts(filtered_rows),
                            !.unique_members_with_debt =
                               Cardinality({filtered_rows[k].Member_ID :
                                              k \in 1..Len(filtered_rows)}),
                            !.payment_types =
                               [k \in 1..Len(groups) |->
                                  [payment_type |-> groups[k].payment_type,
                                   count |-> groups[k].count,
                                   total_amount |-> groups[k].total_amount]],
                            !.filter_applied = title_filter,
                            !.statistics = run.summary_stats]
    /\ UNCHANGED << report_vars, members_vars, upstream, client_vars >>

(***************************************************************************)
(* mcp_server.py:316-344  search_members(query): only get_members is       *)
(* called; every entry whose name contains the query is returned.          *)
(***************************************************************************)
SearchMembers_FirstTen(conn, query, upstream_ok) ==
    /\ request' = [NoRequest EXCEPT !.tool = "search_members", !.query = query]
    /\ upstream_used' = Connected(conn)
    /\ IF ~Connected(conn) THEN response' = ApiNotInitialized
       ELSE IF ~upstream_ok THEN response' = UpstreamError
       ELSE LET matching_members ==
                  FirstN(MatchingMembers(upstream.members, query), MaxExamples)
            IN response' = [NoResult EXCEPT
                              !.kind = "members",
                              !.matching_members = matching_members,
                              !.total_matches = Len(matching_members)]
    /\ EngineNotRun
    /\ UNCHANGED << report_vars, members_vars, upstream, client_vars >>

SearchMembers(conn, query, upstream_ok) ==
    /\ request' = [NoRequest EXCEPT !.tool = "search_members", !.query = query]
    /\ upstream_used' = Connected(conn)
    /\ IF ~Connected(conn) THEN response' = ApiNotInitialized
       ELSE IF ~upstream_ok THEN response' = UpstreamError
       ELSE LET matching_members == MatchingMembers(upstream.members, query)
            IN response' = [NoResult EXCEPT
                              !.kind = "members",
                              !.matching_members = matching_members,
                              !.total_matches = Len(matching_members)]
    /\ EngineNotRun
    /\ UNCHANGED << report_vars, members_vars, upstream, client_vars >>

(***************************************************************************)
(* The upstream service of a session: a club of three or twelve members,   *)
(* up to MaxServerPayments payments, titled 'am5' and 'Am4' in turn, and   *)
(* the answer of get_payment_details for each of them.                     *)
(***************************************************************************)
MaxServerPayments == 2

Entry(id, name) == [id |-> id, name |-> name]

Club3 ==
    << Entry("m1", << "A", "l", "i", "c", "e" >>),
       Entry("j1", << "J", "o", "h", "n", " ", "S" >>),
       Entry("j2", << "J", "o", "h", "n", "n", "y", " ", "A" >>) >>

Clubs ==
    { Club3,
      Club3 \o << Entry("c1", << "c", "1" >>), Entry("c2", << "c", "2" >>),
                  Entry("c3", << "c", "3" >>), Entry("c4", << "c", "4" >>),
                  Entry("c5", << "c", "5" >>), Entry("c6", << "c", "6" >>),
                  Entry("c7", << "c", "7" >>), Entry("c8", << "c", "8" >>),
                  Entry("c9", << "c", "9" >>) >> }

ServerPayments ==
    {[k \in 1..n |->
        [id |-> k,
         title |-> IF k % 2 = 1 THEN Str(<< "a", "m", "5" >>)
                   ELSE Str(<< "A", "m", "4" >>)]] : n \in 0..MaxServerPayments}

ServerDetails ==
    { FetchError,
      Details(ListOf(<< Unpaid1 >>)),
      Details(ListOf(<< Unpaid2, Unpaid1 >>)) }

MemberNames ==
    { << "j", "o", "h", "n" >>, << "J", "o", "h", "n", "n", "y" >>,
      << "a", "l", "i" >>, << "z" >>, << >> }

TitleFilters ==
    { NullText, Str(<< >>), Str(<< "A", "M" >>), Str(<< "5" >>) }

DefaultLimit == 50

InitServer ==
    /\ EngineArguments
    /\ EngineLocals
    /\ granular_rows = << >>
    /\ pc = "idle"
    /\ ReportIdle
    /\ MembersIdle
    /\ AdapterIdle
    /\ ClientIdle
    /\ api = NoApi
    /\ request = NoRequest
    /\ response = NoResult
    /\ upstream_used = FALSE
    /\ \E members \in Clubs, pays \in ServerPayments :
         \E details \in [1..Len(pays) -> ServerDetails] :
            upstream = [members |-> members, payments |-> pays, details |-> details]

NextServer ==
    \/ \E bearer_token \in {Null, "tokA"}, club_id \in {Null, "clubA"},
          creds \in StoredCredentials, built \in BOOLEAN :
         InitializeApi(bearer_token, club_id, creds, built)
    \/ \E member_name \in MemberNames, upstream_ok \in BOOLEAN :
         /\ GetMemberPaymentSummary(api, member_name, upstream_ok)
         /\ UNCHANGED << api, adapter_vars >>
    \/ \E title_filter \in TitleFilters, limit \in {0, 1, DefaultLimit}, upstream_ok \in BOOLEAN :
         /\ GetAllOutstandingPayments(api, title_filter, limit, upstream_ok)
         /\ UNCHANGED << api, adapter_vars >>
    \/ \E title_filter \in TitleFilters, upstream_ok \in BOOLEAN :
         /\ GetPaymentStatistics(api, title_filter, upstream_ok)
         /\ UNCHANGED << api, adapter_vars >>
    \/ \E query \in MemberNames, upstream_ok \in BOOLEAN :
         /\ SearchMembers(api, query, upstream_ok)
         /\ UNCHANGED << api, adapter_vars >>

SpecServer == InitServer /\ [][NextServer]_vars

(***************************************************************************)
(* config.py:20-66  Config.  The file holds the JSON object written by     *)
(* json.dump, modelled as its sequence of key/value pairs; valid = FALSE:  *)
(* its text is not JSON.  save_credentials opens the file with mode 'w',   *)
(* which replaces its contents.                                            *)
(***************************************************************************)
load_credentials(file) ==
    LET get(key) ==
          IF \E k \in 1..Len(file.pairs) : file.pairs[k][1] = key
          THEN file.pairs[CHOOSE k \in 1..Len(file.pairs) : file.pairs[k][1] = key][2]
          ELSE Null
    IN IF ~file.exists \/ ~file.valid THEN NoCredentials
       ELSE [bearer_token |-> get("bearer_token"), club_id |-> get("club_id")]

SaveCredentials_Merging(bearer_token, club_id, save_token) ==
    /\ config_file' =
          [exists |-> TRUE, valid |-> TRUE,
           pairs |-> << << "club_id", club_id >> >>
                     \o (IF save_token
                         THEN << << "bearer_token", bearer_token >> >>
                         ELSE SelectSeq(config_file.pairs,
                                        LAMBDA pair : pair[1] = "bearer_token"))]
    /\ last_save' =
          [called |-> TRUE, bearer_token |-> bearer_token, club_id |-> club_id,
           save_token |-> save_token,
           had_token |-> \E k \in 1..Len(config_file.pairs) :
                            config_file.pairs[k][1] = "bearer_token"]
    /\ UNCHANGED << engine_vars, report_vars, members_vars, server_vars,
                    adapter_vars, http_log, loaded >>

SaveCredentials(bearer_token, club_id, save_token) ==
    /\ config_file' =
          [exists |-> TRUE, valid |-> TRUE,
           pairs |-> << << "club_id", club_id >> >>
                     \o (IF save_token
                         THEN << << "bearer_token", bearer_token >> >>
                         ELSE << >>)]
    /\ last_save' =
          [called |-> TRUE, bearer_token |-> bearer_token, club_id |-> club_id,
           save_token |-> save_token,
           had_token |-> \E k \in 1..Len(config_file.pairs) :
                            config_file.pairs[k][1] = "bearer_token"]
    /\ UNCHANGED << engine_vars, report_vars, members_vars, server_vars,
                    adapter_vars, http_log, loaded >>

LoadCredentials ==
    /\ loaded' = [called |-> TRUE, returned |-> load_credentials(config_file),
                  after |-> last_save]
    /\ UNCHANGED << engine_vars, report_vars, members_vars, server_vars,
                    adapter_vars, http_log, config_file, last_save >>

(***************************************************************************)
(* The file a process finds at its start: none, one saved earlier with a   *)
(* token, or one whose text is not JSON.                                   *)
(***************************************************************************)
InitConfig ==
    /\ EngineArguments
    /\ EngineLocals
    /\ granular_rows = << >>
    /\ pc = "idle"
    /\ ReportIdle
    /\ MembersIdle
    /\ ServerIdle
    /\ AdapterIdle
    /\ http_log = << >>
    /\ loaded = NotLoaded
    /\ last_save = NoSave
    /\ config_file \in
          { NoFile,
            [exists |-> TRUE, valid |-> FALSE, pairs |-> << >>],
            [exists |-> TRUE, valid |-> TRUE,
             pairs |-> << << "club_id", "clubC" >>, << "bearer_token", "tokC" >> >>] }

NextConfig ==
    \/ \E bearer_token \in {"tokA", "tokB"}, club_id \in {"clubA", "clubB"},
          save_token \in BOOLEAN :
         SaveCredentials(bearer_token, club_id, save_token)
    \/ LoadCredentials

SpecConfig == InitConfig /\ [][NextConfig]_vars

(***************************************************************************)
(* api.py:55-89  SpondAPI._make_request(url, method).  exchange: what the  *)
(* HTTP exchange does - session.get raises (no connection, timeout) or     *)
(* answers with a status, a content-type header and a body that is JSON    *)
(* or not.  json_error: the class response.json() raises for a body that   *)
(* is not JSON, json.JSONDecodeError or, where requests uses simplejson,   *)
(* simplejson.JSONDecodeError.  Raised(call): the exception raised inside  *)
(* the try block; the SpondAPIError of line 80 is raised there too, so     *)
(* the clause `except Exception` of line 88 catches it.                    *)
(***************************************************************************)
Raised(call) ==
    IF call.method \notin {"GET", "get"} THEN "ValueError"
    ELSE IF call.transport # "answered" THEN call.transport
    ELSE IF call.status >= 400 THEN "HTTPError"
    ELSE IF call.content_type \notin {"application/json",
                                      "application/json; charset=utf-8"}
    THEN "SpondAPIError: Expected JSON"
    ELSE IF call.body # "json" THEN call.json_error
    ELSE "none"

_make_request(call) ==
    LET e == Raised(call)
    IN IF e = "none" THEN [raised |-> "none", kind |-> "none", description |-> "none"]
       ELSE IF e = "HTTPError"
       THEN [raised |-> "SpondAPIError", kind |-> "HTTP Error", description |-> e]
       ELSE IF e = "json.JSONDecodeError"
       THEN [raised |-> "SpondAPIError", kind |-> "JSON Decode Error", description |-> e]
       ELSE [raised |-> "SpondAPIError", kind |-> "Unexpected error", description |-> e]

MaxRequests == 2

MakeRequest(call) ==
    /\ Len(http_log) < MaxRequests
    /\ http_log' = Append(http_log, [call |-> call, outcome |-> _make_request(call)])
    /\ UNCHANGED << engine_vars, report_vars, members_vars, server_vars,
                    adapter_vars, config_file, loaded, last_save >>

InitRequest ==
    /\ EngineArguments
    /\ EngineLocals
    /\ granular_rows = << >>
    /\ pc = "idle"
    /\ OutsideIdle

NextRequest ==
    LET HttpCall(method, transport, status, content_type, body, json_error) ==
        [method |-> method, transport |-> transport, status |-> status,
         content_type |-> content_type, body |-> body, json_error |-> json_error]
    IN \E call \in
        { HttpCall("GET", "ConnectionError", 0, "", "none", "none"),
          HttpCall("GET", "Timeout", 0, "", "none", "none"),
          HttpCall("GET", "answered", 404, "application/json", "json", "none"),
          HttpCall("GET", "answered", 500, "text/html", "text", "none"),
          HttpCall("GET", "answered", 200, "text/html", "text", "none"),
          HttpCall("GET", "answered", 200, "", "text", "none"),
          HttpCall("GET", "answered", 200, "application/json", "text",
                   "json.JSONDecodeError"),
          HttpCall("GET", "answered", 200, "application/json", "text",
                   "simplejson.JSONDecodeError"),
          HttpCall("GET", "answered", 200, "application/json", "json", "none"),
          HttpCall("get", "answered", 200, "application/json; charset=utf-8",
                   "json", "none"),
          HttpCall("POST", "answered", 200, "application/json", "json", "none") } :
       MakeRequest(call)

SpecRequest == InitRequest /\ [][NextRequest]_vars

(***************************************************************************)
(* mcp_server.py:346-489  the adapter: handle_tool_call,                   *)
(* handle_mcp_request and run_stdio.                                       *)
(*                                                                         *)
(* An input line is blank, not JSON ("malformed"), JSON that is not an     *)
(* object ("non-object") or a JSON object with the members id, method and  *)
(* params; params is absent, not an object ("junk") or an object with      *)
(* name and arguments; arguments likewise, with bearer_token and club_id   *)
(* among the members.  The arguments of the tools themselves are fixed.    *)
(***************************************************************************)
InputLines ==
    LET Arguments(kind, bearer_token, club_id) ==
            [kind |-> kind, bearer_token |-> bearer_token, club_id |-> club_id]
        Params(kind, name, arguments) ==
            [kind |-> kind, name |-> name, arguments |-> arguments]
        Line(kind, id, method, params) ==
            [kind |-> kind, id |-> id, method |-> method, params |-> params]
        Call(id, name, bearer_token, club_id) ==
            Line("object", id, "tools/call",
                 Params("dict", name, Arguments("dict", bearer_token, club_id)))
        none == Arguments("absent", Absent, Absent)
        no_params == Params("absent", Absent, none)
    IN { Line("blank", Absent, Absent, no_params),
         Line("malformed", Absent, Absent, no_params),
         Line("non-object", Absent, Absent, no_params),
         Line("object", "r1", "initialize", no_params),
         Line("object", "r2", "tools/list", no_params),
         Line("object", "r3", "bogus", no_params),
         Line("object", Absent, "bogus", no_params),
         Line("object", "r4", Absent, no_params),
         Line("object", "r5", "tools/call", no_params),
         Line("object", "r6", "tools/call", Params("junk", Absent, none)),
         Line("object", "r7", "tools/call",
              Params("dict", "search_members", Arguments("junk", Absent, Absent))),
         Call("r8", "search_members", Absent, Absent),
         Call("r9", "search_members", "tokA", "clubA"),
         Call("r10", "search_members", "tokB", Absent),
         Call("r11", "search_members", Absent, "clubB"),
         Call("r12", "get_payment_statistics", "tokB", "clubB"),
         Call("r13", "get_member_payment_summary", Absent, Absent),
         Call("r14", "get_all_outstanding_payments", Absent, Absent),
         Call("r15", "nope", Absent, Absent) }

(***************************************************************************)
(* mcp_server.py:346-360  handle_tool_call on the connection conn.         *)
(***************************************************************************)
HandleToolCall(conn, tool_name, upstream_ok) ==
    CASE tool_name = "get_member_payment_summary" ->
           GetMemberPaymentSummary(conn, << "a", "l", "i" >>, upstream_ok)
      [] tool_name = "get_all_outstanding_payments" ->
           GetAllOutstandingPayments(conn, NullText, DefaultLimit, upstream_ok)
      [] tool_name = "get_payment_statistics" ->
           GetPaymentStatistics(conn, NullText, upstream_ok)
      [] tool_name = "search_members" ->
           SearchMembers(conn, << "j", "o", "h", "n" >>, upstream_ok)
      [] OTHER ->
           /\ request' = [NoRequest EXCEPT !.tool = tool_name]
           /\ response' = [NoResult EXCEPT !.kind = "error: Unknown tool"]
           /\ upstream_used' = FALSE
           /\ EngineNotRun
           /\ UNCHANGED << report_vars, members_vars, upstream, client_vars >>

(***************************************************************************)
(* mcp_server.py:408-417  the connection the tool of a tools/call request  *)
(* runs on.  SpondAPI(...) (api.py:26-53) only stores its arguments and    *)
(* builds a session, so it is taken to succeed.                            *)
(***************************************************************************)
ConnectionFor_Merging(self_api, bearer_token, club_id, creds) ==
    IF ~NoValue(bearer_token) /\ ~NoValue(club_id)
    THEN initialize_api(self_api, bearer_token, club_id, creds, TRUE).api
    ELSE IF ~self_api.connected
    THEN initialize_api(self_api, bearer_token, club_id, creds, TRUE).api
    ELSE self_api

ConnectionFor(self_api, bearer_token, club_id, creds) ==
    IF ~NoValue(bearer_token) /\ ~NoValue(club_id)
    THEN initialize_api(self_api, bearer_token, club_id, creds, TRUE).api
    ELSE IF ~self_api.connected
    THEN initialize_api(self_api, Null, Null, creds, TRUE).api
    ELSE self_api

(***************************************************************************)
(* The response printed for line l, the n-th line read: the return value   *)
(* of handle_mcp_request (mcp_server.py:362-451), or the error built by    *)
(* run_stdio (470-489) when json.loads or handle_mcp_request raises.       *)
(* result: what the tool returned, for a call that reached its tool.       *)
(***************************************************************************)
ResponseTo_AllInternal(l, n, result) ==
    LET Reply(id, code, message) ==
          [kind |-> "response", for_line |-> n, id |-> id, code |-> code,
           message |-> message, result |-> IF code = 0 THEN result ELSE "none"]
        request_id == Get(l.id, Null)
    IN IF l.kind = "malformed" THEN Reply(Null, -32603, "Internal error")
       ELSE IF l.kind = "non-object"
       THEN Reply(Null, -32603, "Internal error: AttributeError")
       ELSE IF l.method \in {"initialize", "tools/list"} THEN Reply(request_id, 0, "")
       ELSE IF l.method # "tools/call"
       THEN Reply(request_id, -32603, "Internal error")
       ELSE IF l.params.kind = "junk"
       THEN Reply(request_id, -32603, "Internal error: AttributeError")
       ELSE IF l.params.arguments.kind = "junk"
       THEN Reply(request_id, -32603, "Internal error: TypeError")
       ELSE Reply(request_id, 0, "")

ResponseTo(l, n, result) ==
    LET Reply(id, code, message) ==
          [kind |-> "response", for_line |-> n, id |-> id, code |-> code,
           message |-> message, result |-> IF code = 0 THEN result ELSE "none"]
        request_id == Get(l.id, Null)
    IN IF l.kind = "malformed" THEN Reply(Null, -32700, "Parse error")
       ELSE IF l.kind = "non-object"
       THEN Reply(Null, -32603, "Internal error: AttributeError")
       ELSE IF l.method \in {"initialize", "tools/list"} THEN Reply(request_id, 0, "")
       ELSE IF l.method # "tools/call"
       THEN Reply(request_id, -32601, "Method not found")
       ELSE IF l.params.kind = "junk"
       THEN Reply(request_id, -32603, "Internal error: AttributeError")
       ELSE IF l.params.arguments.kind = "junk"
       THEN Reply(request_id, -32603, "Internal error: TypeError")
       ELSE Reply(request_id, 0, "")

(***************************************************************************)
(* mcp_server.py:458-466  one pass of the loop up to json.loads: readline  *)
(* gives '' when the input is closed, which ends the loop; a blank line    *)
(* is skipped.                                                             *)
(***************************************************************************)
MaxLines == 2

ReadLine ==
    /\ io_pc = "read"
    /\ \/ /\ Len(lines_read) < MaxLines
          /\ \E l \in InputLines :
                /\ line' = l
                /\ lines_read' = Append(lines_read, l)
                /\ io_pc' = IF l.kind = "blank" THEN "read" ELSE "handle"
       \/ /\ line' = [kind |-> "closed"]
          /\ io_pc' = "stopped"
          /\ UNCHANGED lines_read
    /\ UNCHANGED << engine_vars, report_vars, members_vars, server_vars,
                    client_vars, stdout >>

(***************************************************************************)
(* mcp_server.py:466-489 with 362-451  the line is parsed, handled and     *)
(* answered.  Everything written to standard output is in stdout: the      *)
(* response, and before it what the tool's callees print - the warning of  *)
(* load_credentials (config.py:65) and the progress lines of               *)
(* process_payment_data (report.py:35, 89, 92).                            *)
(***************************************************************************)
HandleLine(upstream_ok) ==
    /\ io_pc = "handle"
    /\ io_pc' = "read"
    /\ UNCHANGED << line, lines_read >>
    /\ LET n == Len(lines_read)
           arguments == line.params.arguments
           calls_tool == /\ line.kind = "object"
                         /\ line.method = "tools/call"
                         /\ line.params.kind # "junk"
                         /\ arguments.kind # "junk"
           both == ~NoValue(arguments.bearer_token) /\ ~NoValue(arguments.club_id)
           warning ==
               IF ~both /\ ~api.connected /\ config_file.exists /\ ~config_file.valid
               THEN << [kind |-> "print", text |-> "Warning: Could not load config file"] >>
               ELSE << >>
           Lines(count, text) == [k \in 1..count |-> [kind |-> "print", text |-> text]]
       IN IF calls_tool
          THEN /\ api' = ConnectionFor(api, arguments.bearer_token, arguments.club_id,
                                       load_credentials(config_file))
               /\ HandleToolCall(api', line.params.name, upstream_ok)
               /\ stdout' =
                     stdout \o warning
                       \o (IF pc' = "returned"
                           THEN Lines(1, "Processing payments...")
                                  \o Lines(payments_with_unpaid',
                                           "Payment has unpaid recipients")
                                  \o Lines(Len(calls') - total_payments_processed',
                                           "Warning: Failed to process payment")
                           ELSE << >>)
                       \o << ResponseTo(line, n, response'.kind) >>
          ELSE /\ stdout' = Append(stdout, ResponseTo(line, n, "none"))
               /\ UNCHANGED << engine_vars, report_vars, members_vars, server_vars,
                               client_vars >>

(***************************************************************************)
(* mcp_server.py:492-495  main(): a new server, no connection yet, reads   *)
(* standard input.  The configuration file and the upstream service are    *)
(* those of the session.                                                   *)
(***************************************************************************)
InitStdio ==
    /\ EngineArguments
    /\ EngineLocals
    /\ granular_rows = << >>
    /\ pc = "idle"
    /\ ReportIdle
    /\ MembersIdle
    /\ api = NoApi
    /\ request = NoRequest
    /\ response = NoResult
    /\ upstream_used = FALSE
    /\ upstream = [members |-> Club3,
                   payments |-> << [id |-> 1, title |-> Str(<< "a", "m", "5" >>)] >>,
                   details |-> << Details(ListOf(<< Unpaid1 >>)) >>]
    /\ io_pc = "read"
    /\ line = [kind |-> "none"]
    /\ lines_read = << >>
    /\ stdout = << >>
    /\ http_log = << >>
    /\ loaded = NotLoaded
    /\ last_save = NoSave
    /\ config_file \in
          { NoFile,
            [exists |-> TRUE, valid |-> FALSE, pairs |-> << >>],
            [exists |-> TRUE, valid |-> TRUE, pairs |-> << << "club_id", "clubC" >> >>],
            [exists |-> TRUE, valid |-> TRUE,
             pairs |-> << << "club_id", "clubC" >>, << "bearer_token", "tokC" >> >>] }

NextStdio ==
    \/ ReadLine
    \/ \E upstream_ok \in BOOLEAN : HandleLine(upstream_ok)

SpecStdio == InitStdio /\ [][NextStdio]_vars

(***************************************************************************)
(* Vocabulary of the properties.                                           *)
(***************************************************************************)
Done == 1..Len(trace)

Rows == 1..Len(granular_rows)

RowsOf(i) == {k \in Rows : row_src[k].payment = i}

Fetched(i) == trace[i].kind \in {"processed", "failed"}

Returned == pc = "returned"

(***************************************************************************)
(* Case-insensitive containment, stated letter by letter: term occurs in   *)
(* title at some offset, each letter equal up to case.                     *)
(***************************************************************************)
SameLetter(a, b) ==
    \/ a = b
    \/ {a, b} \in {{"a", "A"}, {"m", "M"}, {"u", "U"}, {"p", "P"}, {"f", "F"},
                     {"j", "J"}, {"s", "S"}}

TitleHasTerm(title, term) ==
    \E off \in 0..(Len(title) - Len(term)) :
        \A j \in 1..Len(term) : SameLetter(term[j], title[off + j])

TitleText(i) ==
    IF payments[i].title.kind = "absent" THEN UnnamedPayment
    ELSE payments[i].title.chars

PassesTitleFilters(i) ==
    \A n \in 1..Len(title_filters.terms) :
        TitleHasTerm(TitleText(i), title_filters.terms[n])

(***************************************************************************)
(* C1: when get_payment_details fails for a payment, the iteration leaves  *)
(* the ledger and every counter as they were, the function does not raise, *)
(* and the loop moves to the next payment: the payments after it are       *)
(* processed from the state they would have been processed from had the    *)
(* failing payment not been in the list.                                   *)
(***************************************************************************)
FetchFailedNow ==
    /\ Len(trace') = Len(trace) + 1
    /\ trace'[Len(trace')].kind = "fetch_failed"

C1_FetchFailureSkipsPayment ==
    [][FetchFailedNow =>
         /\ granular_rows' = granular_rows
         /\ row_src' = row_src
         /\ total_payments_processed' = total_payments_processed
         /\ payments_with_unpaid' = payments_with_unpaid
         /\ filtered_payments' = filtered_payments
         /\ pc' = "loop"
         /\ idx' = idx + 1]_vars

C1_Witness ==
    /\ Returned
    /\ \E i, j \in Done :
         /\ i < j
         /\ trace[i].kind = "fetch_failed"
         /\ trace[j].kind = "processed"
         /\ RowsOf(i) = {}
         /\ RowsOf(j) # {}

(***************************************************************************)
(* C2: every row of the ledger comes from a recipient whose status is      *)
(* exactly 'UNANSWERED'; a recipient with another status, or with none,    *)
(* produces no row.                                                        *)
(***************************************************************************)
C2_OnlyUnansweredRows ==
    /\ Len(row_src) = Len(granular_rows)
    /\ \A k \in Rows :
         /\ row_src[k].recipient.status = "UNANSWERED"
         /\ granular_rows[k].Status = "UNANSWERED"

C2_Witness ==
    \E k \in Rows :
        /\ row_src[k].position = 2
        /\ trace[row_src[k].payment].kind = "processed"
        /\ \A n \in RowsOf(row_src[k].payment) : row_src[n].position # 1

(***************************************************************************)
(* C3: with title filters given, a payment is reconciled if and only if    *)
(* its title contains every filter term, compared case-insensitively; each *)
(* payment failing the test adds exactly one to filtered_payments and      *)
(* produces no row.                                                        *)
(***************************************************************************)
C3_AllTermsMustMatch ==
    /\ \A i \in Done :
         /\ (FiltersGiven(title_filters) /\ payments[i].title.kind # "null")
              => (trace[i].kind # "filtered" <=> PassesTitleFilters(i))
         /\ trace[i].kind = "filtered" => RowsOf(i) = {}
    /\ filtered_payments = Cardinality({i \in Done : trace[i].kind = "filtered"})
    /\ Returned => summary_stats.filtered_payments = filtered_payments

C3_Witness ==
    /\ Returned
    /\ Len(title_filters.terms) = 2
    /\ \E i, j \in Done :
         /\ trace[i].kind = "filtered"
         /\ \E n \in 1..2 : TitleHasTerm(TitleText(i), title_filters.terms[n])
         /\ trace[j].kind = "processed"
         /\ RowsOf(j) # {}

(***************************************************************************)
(* C4: get_payment_details is called exactly once for each payment that    *)
(* passes the title filters, in input order, never for a filtered-out      *)
(* payment and never again for a payment whose fetch failed.               *)
(***************************************************************************)
C4_OneFetchPerReconciledPayment ==
    LET wanted == {i \in Done : ~FiltersGiven(title_filters) \/ PassesTitleFilters(i)} IN
    /\ Len(calls) = Cardinality(wanted)
    /\ \A i \in wanted : \E a \in 1..Len(calls) : calls[a] = payments[i].id
    /\ \A a, b \in 1..Len(calls) : a < b => calls[a] < calls[b]

C4_Witness ==
    /\ Returned
    /\ Len(calls) = 1
    /\ \E i, j \in Done :
         /\ trace[i].kind = "filtered"
         /\ trace[j].kind = "fetch_failed"

(***************************************************************************)
(* C5: after a run, the length of the ledger (and total_unpaid_items)      *)
(* equals the sum, over the payments counted in total_payments_processed,  *)
(* of the number of their recipients whose status is UNANSWERED.           *)
(***************************************************************************)
RECURSIVE UnansweredUpTo(_)
UnansweredUpTo(n) ==
    IF n = 0 THEN 0
    ELSE UnansweredUpTo(n - 1) + (IF Fetched(n) THEN trace[n].unanswered ELSE 0)

C5_LedgerLengthIsUnansweredSum ==
    Returned =>
      /\ Len(granular_rows) = UnansweredUpTo(Len(trace))
      /\ summary_stats.total_unpaid_items = UnansweredUpTo(Len(trace))

(***************************************************************************)
(* C6: the amount owed of a row is the price of the first product of the   *)
(* first claim of its recipient divided by 100 (2500 gives 25.00); an      *)
(* unpaid recipient with no claims, an empty claims list, a first claim    *)
(* without products or a first product without a usable price gives a row  *)
(* of amount 0 and makes nothing fail.                                     *)
(***************************************************************************)
HasFirstClaim(r) == r.claims.kind = "list" /\ Len(r.claims.items) > 0

HasFirstProduct(r) ==
    /\ HasFirstClaim(r)
    /\ r.claims.items[1].kind = "dict"
    /\ r.claims.items[1].products.kind = "list"
    /\ Len(r.claims.items[1].products.items) > 0

FirstPrice(r) == r.claims.items[1].products.items[1].price

HasUsablePrice(r) ==
    /\ HasFirstProduct(r)
    /\ r.claims.items[1].products.items[1].kind = "dict"
    /\ FirstPrice(r).kind = "int"

ZeroAmountCase(r) ==
    \/ ~HasFirstClaim(r)
    \/ r.claims.items[1].kind = "dict" /\ ~HasFirstProduct(r)
    \/ /\ HasFirstProduct(r)
       /\ r.claims.items[1].products.items[1].kind = "dict"
       /\ FirstPrice(r).kind # "int"

C6_AmountIsFirstPriceOverHundred ==
    /\ \A k \in Rows :
         LET r == row_src[k].recipient
             owed == granular_rows[k].Amount_Owed
         IN /\ owed.hundredths \in 0..99
            /\ 100 * owed.whole + owed.hundredths =
                 (IF HasUsablePrice(r) THEN FirstPrice(r).n ELSE 0)
    /\ \A i \in Done :
         (trace[i].culprit.kind = "dict" /\ trace[i].culprit.status = "UNANSWERED")
            => ~ZeroAmountCase(trace[i].culprit)

(***************************************************************************)
(* C7: the ledger lists rows in the input order of their payments and,     *)
(* within one payment, in the input order of its recipients.               *)
(***************************************************************************)
C7_LedgerKeepsInputOrder ==
    /\ \A k \in Rows :
         granular_rows[k].Payment_ID = payments[row_src[k].payment].id
    /\ \A a, b \in Rows :
         a < b =>
           \/ row_src[a].payment < row_src[b].payment
           \/ /\ row_src[a].payment = row_src[b].payment
              /\ row_src[a].position < row_src[b].position

C7_Witness ==
    /\ Returned
    /\ \E a, b, c \in Rows :
         /\ a < b /\ b < c
         /\ row_src[a].payment = row_src[b].payment
         /\ row_src[b].payment < row_src[c].payment
         /\ granular_rows[a].Member_ID # granular_rows[b].Member_ID

(***************************************************************************)
(* C8: total_payments_processed equals the number of non-filtered payments *)
(* whose get_payment_details call succeeded, with or without unpaid        *)
(* recipients; a failed fetch and a filtered-out payment are not counted.  *)
(***************************************************************************)
C8_ProcessedCountsSuccessfulFetches ==
    /\ total_payments_processed = Cardinality({i \in Done : Fetched(i)})
    /\ Returned => summary_stats.total_payments_processed = total_payments_processed

C8_Witness ==
    /\ Returned
    /\ total_payments_processed = 1
    /\ \E i, j \in Done :
         /\ trace[i].kind = "fetch_failed"
         /\ trace[j].kind = "processed"
         /\ trace[j].unanswered = 0

(***************************************************************************)
(* C9: after a run, payments_with_unpaid equals the number of processed    *)
(* payments that contributed at least one row to the ledger.               *)
(***************************************************************************)
C9_WithUnpaidCountsContributors ==
    Returned =>
      /\ payments_with_unpaid =
           Cardinality({i \in Done : Fetched(i) /\ RowsOf(i) # {}})
      /\ summary_stats.payments_with_unpaid = payments_with_unpaid

(***************************************************************************)
(* C10: when the processing of a payment fails at any point, also after    *)
(* some of its recipients were handled, that payment contributes no row at *)
(* all to the ledger and the run continues with the next payment.          *)
(***************************************************************************)
C10_FailedPaymentAddsNoRow ==
    \A i \in Done : trace[i].kind = "failed" => RowsOf(i) = {}

(***************************************************************************)
(* C13: an unpaid recipient whose member id is not a key of the member     *)
(* index, or who has no member id, does not make the run fail on the       *)
(* lookup: its row carries the name 'Unknown (<member id>)' with the id    *)
(* inside ('Unknown (None)' when there is no id).                          *)
(***************************************************************************)
IdOf(r) == IF r.memberId = Absent THEN Null ELSE r.memberId

UnknownMember(r) == IdOf(r) \notin DOMAIN member_map

C13_UnknownMemberGetsPlaceholder ==
    /\ \A k \in Rows :
         LET r == row_src[k].recipient IN
         UnknownMember(r) =>
           granular_rows[k].Member_Name =
             (IF r.memberId \in {Absent, Null}
              THEN "Unknown (None)"
              ELSE "Unknown (" \o r.memberId \o ")")
    /\ \A i \in Done :
         LET r == trace[i].culprit IN
         (r.kind = "dict" /\ r.status = "UNANSWERED" /\ UnknownMember(r))
            => HasFirstClaim(r)

C13_Witness ==
    /\ Returned
    /\ \E k \in Rows :
         /\ row_src[k].recipient.memberId = Absent
         /\ granular_rows[k].Member_Name = "Unknown (None)"
         /\ granular_rows[k].Amount_Owed = Amount(10, 50)

(***************************************************************************)
(* C14: every row of the ledger has an amount owed greater than or equal   *)
(* to zero, whatever the upstream service returned.                        *)
(***************************************************************************)
C14_AmountsNonNegative ==
    \A k \in Rows :
        /\ granular_rows[k].Amount_Owed.whole >= 0
        /\ granular_rows[k].Amount_Owed.hundredths >= 0

(***************************************************************************)
(* Vocabulary of the properties of the per-member summary.                 *)
(***************************************************************************)
RECURSIVE TotalOwed(_)
TotalOwed(entries) ==
    IF entries = << >> THEN 0
    ELSE 100 * Head(entries).Amount_Owed.whole
           + Head(entries).Amount_Owed.hundredths + TotalOwed(Tail(entries))

Triple(entry) == << entry.Member_Name, entry.Member_ID, entry.Currency >>

FirstSeen(ledger, triple) ==
    CHOOSE k \in 1..Len(ledger) :
        /\ Triple(ledger[k]) = triple
        /\ \A j \in 1..(k - 1) : Triple(ledger[j]) # triple

ExcelSummaryMade == workbook.exists

PrintedSummaryMade == printed.called /\ ~printed.none_found

(***************************************************************************)
(* C11: for every ledger, also one with rows whose member id is missing,   *)
(* the per-member summary of generate_excel_report and of print_summary    *)
(* conserves money: its totals add up to the sum of the amounts owed of    *)
(* all rows of the ledger.                                                 *)
(***************************************************************************)
C11_SummaryConservesMoney ==
    /\ ExcelSummaryMade =>
         TotalOwed(workbook.summary) = TotalOwed(granular_rows)
    /\ PrintedSummaryMade =>
         TotalOwed(printed.summary) = TotalOwed(granular_rows)

(***************************************************************************)
(* C12: the per-member summary has one entry per distinct (member name,    *)
(* member id, currency) triple of the ledger, in descending order of the   *)
(* summed amount, entries of equal sums in the order in which their        *)
(* groups first occur in the ledger.                                       *)
(***************************************************************************)
IsSummaryOf(summary, ledger) ==
    LET triples == {Triple(ledger[k]) : k \in 1..Len(ledger)} IN
    /\ {Triple(summary[i]) : i \in 1..Len(summary)} = triples
    /\ Len(summary) = Cardinality(triples)
    /\ \A i, j \in 1..Len(summary) :
         i < j =>
           LET a == 100 * summary[i].Amount_Owed.whole + summary[i].Amount_Owed.hundredths
               b == 100 * summary[j].Amount_Owed.whole + summary[j].Amount_Owed.hundredths
           IN /\ a >= b
              /\ a = b => FirstSeen(ledger, Triple(summary[i]))
                            < FirstSeen(ledger, Triple(summary[j]))

C12_OneEntryPerTripleStableDescending ==
    /\ ExcelSummaryMade => IsSummaryOf(workbook.summary, granular_rows)
    /\ PrintedSummaryMade => IsSummaryOf(printed.summary, granular_rows)

(***************************************************************************)
(* C16: with an empty payment list the run fetches no detail and returns   *)
(* an empty ledger and statistics whose five counts are zero;              *)
(* generate_excel_report on an empty ledger returns None and writes no     *)
(* file.                                                                   *)
(***************************************************************************)
C16_EmptyPaymentListEndToEnd ==
    /\ payments = << >> =>
         /\ calls = << >>
         /\ granular_rows = << >>
         /\ pc # "raised"
         /\ Returned =>
              /\ summary_stats.total_payments_found = 0
              /\ summary_stats.filtered_payments = 0
              /\ summary_stats.total_payments_processed = 0
              /\ summary_stats.payments_with_unpaid = 0
              /\ summary_stats.total_unpaid_items = 0
    /\ (granular_rows = << >> /\ excel_file # NotCalled) =>
         /\ excel_file = Null
         /\ ~workbook.exists

C16_Witness ==
    /\ payments = << >>
    /\ FiltersGiven(title_filters)
    /\ Returned
    /\ excel_file = Null
    /\ printed.none_found

(***************************************************************************)
(* C15: get_members puts a member record into the index if and only if    *)
(* the record has a non-empty id and a non-empty resolved name, the        *)
(* resolved name being the record's 'name' field when it is present and    *)
(* otherwise the trimmed concatenation of firstName and lastName; a        *)
(* record lacking both id and name is never put into the index.            *)
(***************************************************************************)
TextOf(value) == IF value.kind = "str" THEN value.chars ELSE << >>

Trimmed(s) ==
    LET inked == {k \in 1..Len(s) : s[k] # " "} IN
    IF inked = {} THEN << >>
    ELSE SubSeq(s, CHOOSE k \in inked : \A j \in inked : k <= j,
                   CHOOSE k \in inked : \A j \in inked : k >= j)

ResolvedName(m) ==
    IF m.name.kind # "absent"
    THEN TextOf(m.name)
    ELSE Trimmed(TextOf(m.firstName) \o << " " >> \o TextOf(m.lastName))

HasId(m) == m.id \notin {Absent, Null, ""}

C15_IndexedIffIdAndName ==
    [][members_seen' = members_seen + 1 =>
         LET m == last_member' IN
         IF HasId(m) /\ ResolvedName(m) # << >>
         THEN /\ m.id \in DOMAIN member_index'
              /\ member_index'[m.id] = ResolvedName(m)
         ELSE member_index' = member_index]_vars

(***************************************************************************)
(* Vocabulary of the properties of the server operations.                  *)
(***************************************************************************)
Asked(tool) == request.tool = tool

Answered ==
    response.kind \notin {"none", "error: API not initialized",
                          "error: Spond API Error"}

NamesContaining(pattern) ==
    {h \in 1..Len(upstream.members) :
        TitleHasTerm(upstream.members[h].name, pattern)}

PositionOf(name) ==
    CHOOSE h \in 1..Len(upstream.members) : upstream.members[h].name = name

Min(a, b) == IF a < b THEN a ELSE b

(***************************************************************************)
(* C17: get_member_payment_summary returns a payment summary only when     *)
(* exactly one name of the member index contains the pattern, compared     *)
(* case-insensitively; with no matching name it returns an error with at   *)
(* most 10 example names taken from the index, with several matching       *)
(* names an error listing every one of them.                               *)
(***************************************************************************)
C17_SummaryOnlyForUniqueMatch ==
    (Asked("get_member_payment_summary") /\ Answered) =>
      LET hits == NamesContaining(request.member_name)
          listed == response.names
      IN /\ response.kind \in {"summary", "no outstanding payments"}
              <=> Cardinality(hits) = 1
         /\ Cardinality(hits) = 1 =>
              \A h \in hits : response.member_name = upstream.members[h].name
         /\ hits = {} =>
              /\ response.kind = "error: No members found"
              /\ Len(listed) = Min(10, Len(upstream.members))
              /\ \A k \in 1..Len(listed) : listed[k] = upstream.members[k].name
         /\ Cardinality(hits) > 1 =>
              /\ response.kind = "error: Multiple members found"
              /\ Len(listed) = Cardinality(hits)
              /\ \A h \in hits : \E k \in 1..Len(listed) :
                    listed[k] = upstream.members[h].name
              /\ \A a, b \in 1..Len(listed) :
                    a < b => PositionOf(listed[a]) < PositionOf(listed[b])

C17_Witness ==
    /\ Asked("get_member_payment_summary")
    /\ response.kind = "error: No members found"
    /\ Len(upstream.members) = 12
    /\ Len(response.names) = 10

(***************************************************************************)
(* C18: when exactly one member matches, total_owed is the sum of the      *)
(* amounts owed of the ledger rows the engine produced for that member,    *)
(* the breakdown is keyed by the payment titles of those rows, and the     *)
(* 'no outstanding payments' answer with total_owed 0 is given only when   *)
(* the engine produced no row for that member.                             *)
(***************************************************************************)
C18_TotalOwedIsSumOfMemberRows ==
    (Asked("get_member_payment_summary")
       /\ response.kind \in {"summary", "no outstanding payments"}) =>
      LET hit == CHOOSE h \in NamesContaining(request.member_name) : TRUE
          IsTheirs(row) == row.Member_ID = upstream.members[hit].id
          theirs == SelectSeq(granular_rows, IsTheirs)
      IN /\ response.kind = "no outstanding payments" <=> theirs = << >>
         /\ response.total_owed = TotalOwed(theirs)
         /\ {response.payment_types[k].payment_type :
                k \in 1..Len(response.payment_types)}
              = {theirs[k].Payment_Name : k \in 1..Len(theirs)}

(***************************************************************************)
(* C19: for a ledger of n rows and a limit >= 0,                           *)
(* get_all_outstanding_payments returns the first min(n, limit) rows,      *)
(* total_count is the number of rows returned and truncated is true if     *)
(* and only if n > limit.                                                  *)
(***************************************************************************)
C19_LimitTruncatesLedger ==
    (Asked("get_all_outstanding_payments") /\ Answered
       /\ ~(request.title_filter.kind = "str" /\ request.title_filter.chars # << >>)) =>
      LET n == Len(granular_rows)
          shown == response.outstanding_payments
      IN /\ Len(shown) = Min(n, request.limit)
         /\ \A k \in 1..Len(shown) :
               shown[k].member_name = granular_rows[k].Member_Name
         /\ response.total_count = Len(shown)
         /\ response.truncated <=> n > request.limit

(***************************************************************************)
(* C20: get_all_outstanding_payments with a title filter is equivalent to  *)
(* running the engine with that string as its only title filter and then   *)
(* truncating: the rows returned are the engine's rows of the payments     *)
(* whose title contains the filter, the other payments are not fetched in  *)
(* detail, and the statistics count them in filtered_payments.             *)
(***************************************************************************)
C20_TitleFilterIsEngineFilter ==
    (Asked("get_all_outstanding_payments") /\ Answered
       /\ request.title_filter.kind = "str" /\ request.title_filter.chars # << >>
       /\ request.limit > 0) =>
      LET expected == process_payment_data(upstream.payments,
                        FilterList(<< request.title_filter.chars >>),
                        upstream.details)
          shown == response.outstanding_payments
      IN /\ Len(shown) = Min(Len(expected.rows), request.limit)
         /\ \A k \in 1..Len(shown) :
               shown[k].member_name = expected.rows[k].Member_Name
         /\ calls = expected.calls
         /\ response.statistics.filtered_payments = expected.filtered_payments

(***************************************************************************)
(* Vocabulary of the club statistics: the ledger rows whose payment name   *)
(* contains the title filter of the request (every row without one).       *)
(***************************************************************************)
FilterGiven == request.title_filter.kind = "str" /\ request.title_filter.chars # << >>

PassingRows ==
    LET Passes(row) ==
          FilterGiven => TitleHasTerm(row.Payment_Name.chars, request.title_filter.chars)
    IN SelectSeq(granular_rows, Passes)

RECURSIVE SumOf(_, _)
SumOf(f, S) ==
    IF S = {} THEN 0
    ELSE LET x == CHOOSE y \in S : TRUE IN f[x] + SumOf(f, S \ {x})

(***************************************************************************)
(* C21: get_payment_statistics returns, over the engine's ledger rows that *)
(* pass the optional title filter, total_outstanding_payments = number of  *)
(* rows, total_amount_owed = sum of their amounts owed,                    *)
(* unique_members_with_debt = number of distinct member ids, and per       *)
(* payment title a count and a total whose counts sum to                   *)
(* total_outstanding_payments; when no row passes, all of them are zero.   *)
(***************************************************************************)
C21_StatisticsOverPassingRows ==
    (Asked("get_payment_statistics") /\ response.kind = "statistics") =>
      LET passing == PassingRows
          types == response.payment_types
          OfType(t) == LET Is(row) == row.Payment_Name = t IN SelectSeq(passing, Is)
      IN /\ response.total_outstanding_payments = Len(passing)
         /\ response.total_amount_owed = TotalOwed(passing)
         /\ response.unique_members_with_debt =
               Cardinality({passing[k].Member_ID : k \in 1..Len(passing)})
         /\ {types[k].payment_type : k \in 1..Len(types)}
               = {passing[k].Payment_Name : k \in 1..Len(passing)}
         /\ \A k \in 1..Len(types) :
               /\ types[k].count = Len(OfType(types[k].payment_type))
               /\ types[k].total_amount = TotalOwed(OfType(types[k].payment_type))
         /\ SumOf([k \in 1..Len(types) |-> types[k].count], 1..Len(types))
               = response.total_outstanding_payments

(***************************************************************************)
(* C22: search_members returns exactly the members of the index whose name *)
(* contains the query case-insensitively, each with its id and name, in    *)
(* the order of the index and however many they are, and total_matches is  *)
(* the number of entries returned.                                         *)
(***************************************************************************)
C22_SearchReturnsEveryMatch ==
    (Asked("search_members") /\ response.kind = "members") =>
      LET hits == NamesContaining(request.query)
          found == response.matching_members
      IN /\ Len(found) = Cardinality(hits)
         /\ \A h \in hits : \E k \in 1..Len(found) : found[k] = upstream.members[h]
         /\ \A a, b \in 1..Len(found) :
               a < b => PositionOf(found[a].name) < PositionOf(found[b].name)
         /\ response.total_matches = Len(found)

C22_Witness ==
    /\ Asked("search_members")
    /\ response.kind = "members"
    /\ request.query = << >>
    /\ response.total_matches = 12

(***************************************************************************)
(* C23: each of the four query operations, invoked while no upstream       *)
(* connection is initialised, returns the 'API not initialized' error      *)
(* result, issues no upstream call and does not run the engine; on an      *)
(* initialised connection none of them returns that error.                 *)
(***************************************************************************)
QueryOperations ==
    {"get_member_payment_summary", "get_all_outstanding_payments",
     "get_payment_statistics", "search_members"}

C23_NoConnectionNoUpstreamCall ==
    request.tool \in QueryOperations =>
      IF api.connected
      THEN response.kind # "error: API not initialized" /\ upstream_used
      ELSE /\ response.kind = "error: API not initialized"
           /\ ~upstream_used
           /\ calls = << >>
           /\ granular_rows = << >>

C23_Witness ==
    /\ request.tool = "get_payment_statistics"
    /\ ~api.connected
    /\ response.kind = "error: API not initialized"
    /\ upstream.payments # << >>

(***************************************************************************)
(* C27: initialize_api returns True and sets the connection exactly when   *)
(* a bearer token and a club id are both available, each from the          *)
(* arguments or, when not given, from the stored configuration, and        *)
(* building the connection does not fail; otherwise it returns False and   *)
(* leaves the connection as it was before the call.                        *)
(***************************************************************************)
Given(value) == value \notin {Absent, Null, ""}

C27_ConnectionSetIffCredentialsAvailable ==
    [][request'.tool = "initialize_api" =>
         LET call == request'
             token == IF Given(call.bearer_token) THEN call.bearer_token
                      ELSE call.creds.bearer_token
             club == IF Given(call.club_id) THEN call.club_id
                     ELSE call.creds.club_id
             available == Given(token) /\ Given(club) /\ call.built
         IN /\ response'.kind = (IF available THEN "True" ELSE "False")
            /\ available =>
                  api' = [connected |-> TRUE, bearer_token |-> token, club_id |-> club]
            /\ ~available => api' = api]_vars

C27_Witness ==
    /\ request.tool = "initialize_api"
    /\ response.kind = "False"
    /\ request.bearer_token = "tokA"
    /\ ~Given(request.creds.club_id)
    /\ api.connected
    /\ api.club_id = "clubC"

(***************************************************************************)
(* C29: after any sequence of save_credentials calls, load_credentials     *)
(* returns the club id of the last save, and the bearer token of that save *)
(* if it was made with save_token=True, no token otherwise; a save with    *)
(* save_token=False leaves no token in the file even when the file held    *)
(* one before.                                                             *)
(***************************************************************************)
C29_LoadReturnsLastSave ==
    /\ (loaded.called /\ loaded.after.called) =>
          /\ loaded.returned.club_id = loaded.after.club_id
          /\ loaded.returned.bearer_token =
                (IF loaded.after.save_token THEN loaded.after.bearer_token ELSE Null)
    /\ (last_save.called /\ ~last_save.save_token) =>
          \A k \in 1..Len(config_file.pairs) : config_file.pairs[k][1] # "bearer_token"

C29_Witness ==
    /\ loaded.called
    /\ loaded.after.called
    /\ loaded.after.had_token
    /\ ~loaded.after.save_token
    /\ loaded.returned = [bearer_token |-> Null, club_id |-> "clubB"]

(***************************************************************************)
(* C28: every failure of an upstream call in _make_request reaches the     *)
(* caller as a SpondAPIError, and a format failure (an answer whose        *)
(* content type is not JSON) is reported with an error kind other than     *)
(* the kind of any transport failure (no connection, timeout, status       *)
(* outside 2xx) and of any malformed JSON body.                            *)
(***************************************************************************)
Answered2xx(call) ==
    call.method = "GET" /\ call.transport = "answered" /\ call.status < 400

FormatFailure(call) ==
    Answered2xx(call) /\ call.content_type \in {"", "text/html"}

TransportFailure(call) ==
    call.method = "GET" /\ (call.transport # "answered" \/ call.status >= 400)

MalformedBody(call) ==
    Answered2xx(call) /\ ~FormatFailure(call) /\ call.body # "json"

C28_FormatFailureHasItsOwnKind ==
    \A i, j \in 1..Len(http_log) :
       LET a == http_log[i]
           b == http_log[j]
       IN /\ a.outcome.raised \in {"none", "SpondAPIError"}
          /\ (FormatFailure(a.call) \/ TransportFailure(a.call)
                \/ MalformedBody(a.call)) => a.outcome.raised = "SpondAPIError"
          /\ (FormatFailure(a.call)
                /\ (TransportFailure(b.call) \/ MalformedBody(b.call))) =>
                a.outcome.kind # b.outcome.kind

(***************************************************************************)
(* C30: with a non-empty list of title filters, process_payment_data       *)
(* returns for every payment list, also one with a payment whose title is  *)
(* absent or null: the run never ends by raising, and a payment without    *)
(* title is filtered as if it were titled 'Unnamed Payment'.               *)
(***************************************************************************)
C30_TitleFiltersNeverRaise ==
    FiltersGiven(title_filters) =>
      /\ pc # "raised"
      /\ \A i \in Done :
            payments[i].title.kind = "absent" =>
              (trace[i].kind # "filtered" <=> PassesTitleFilters(i))

(***************************************************************************)
(* Vocabulary of the adapter: the non-blank lines read so far, by position *)
(* in the input, and the responses among the lines written.                *)
(***************************************************************************)
NonBlank == {i \in 1..Len(lines_read) : lines_read[i].kind # "blank"}

ResponseLines == {k \in 1..Len(stdout) : stdout[k].kind = "response"}

ReachesTool(l) ==
    /\ l.kind = "object"
    /\ l.method = "tools/call"
    /\ l.params.kind # "junk"
    /\ l.params.arguments.kind # "junk"

(***************************************************************************)
(* C24: for every sequence of input lines, run_stdio writes exactly one    *)
(* line, the response, for each non-blank input line, in input order and   *)
(* before it reads the next line, whatever error the line causes, and it   *)
(* stops only when the input is closed.                                    *)
(***************************************************************************)
C24_OneResponseLinePerInputLine ==
    /\ Len(stdout) = Cardinality(NonBlank) - (IF io_pc = "handle" THEN 1 ELSE 0)
    /\ \A k \in 1..Len(stdout) :
          /\ stdout[k].kind = "response"
          /\ stdout[k].for_line \in NonBlank
          /\ Cardinality({i \in NonBlank : i <= stdout[k].for_line}) = k
    /\ io_pc = "stopped" => line.kind = "closed"

(***************************************************************************)
(* C25: the adapter maps each failure class to one fixed code, with the    *)
(* id of the request when the line was parsed into a request: an           *)
(* unrecognised method gets -32601 and its own id, a line that is not      *)
(* valid JSON gets -32700, and a failure raised while the request is       *)
(* handled gets -32603 with the description of the failure in the message; *)
(* every other request gets a result and its own id.                       *)
(***************************************************************************)
C25_OneCodePerFailureClass ==
    /\ \A i \in NonBlank :
          (i < Len(lines_read) \/ io_pc # "handle") =>
             Cardinality({k \in ResponseLines : stdout[k].for_line = i}) = 1
    /\ \A k \in ResponseLines :
          LET l == lines_read[stdout[k].for_line]
              r == stdout[k]
              own == IF l.kind = "object" /\ l.id # Absent THEN l.id ELSE Null
              fails == \/ l.kind = "non-object"
                       \/ /\ l.kind = "object"
                          /\ l.method = "tools/call"
                          /\ ~ReachesTool(l)
          IN /\ r.id = own
             /\ l.kind = "malformed" <=> r.code = -32700
             /\ (l.kind = "object"
                   /\ l.method \notin {"initialize", "tools/list", "tools/call"})
                  <=> r.code = -32601
             /\ fails <=> r.code = -32603
             /\ fails => r.message \in {"Internal error: AttributeError",
                                         "Internal error: TypeError"}
             /\ r.code \in {0, -32700, -32601, -32603}

C25_Witness ==
    /\ io_pc = "read"
    /\ \E a, b \in ResponseLines :
          /\ stdout[a].code = -32601
          /\ stdout[a].id = "r3"
          /\ stdout[b].code = -32603
          /\ stdout[b].id = "r7"

(***************************************************************************)
(* C26: across any sequence of tools/call requests the connection is       *)
(* replaced wholesale and never merged: a request supplying both           *)
(* bearer_token and club_id makes its tool run on a connection built from  *)
(* exactly those two values, which stays for the later requests; a request *)
(* supplying neither or only one of them leaves an existing connection     *)
(* unchanged, and without an existing connection yields at most one built  *)
(* from the stored credentials alone.                                      *)
(***************************************************************************)
C26_ConnectionReplacedWholesale ==
    [][(io_pc = "handle" /\ io_pc' = "read" /\ ReachesTool(line)) =>
         LET supplied == line.params.arguments
             both == Given(supplied.bearer_token) /\ Given(supplied.club_id)
             stored == load_credentials(config_file)
             ran_on == api'
         IN /\ both => ran_on = [connected |-> TRUE,
                                  bearer_token |-> supplied.bearer_token,
                                  club_id |-> supplied.club_id]
            /\ (~both /\ api.connected) => ran_on = api
            /\ (~both /\ ~api.connected) =>
                  \/ ran_on = api
                  \/ /\ Given(stored.bearer_token) /\ Given(stored.club_id)
                     /\ ran_on = [connected |-> TRUE,
                                  bearer_token |-> stored.bearer_token,
                                  club_id |-> stored.club_id]
            /\ upstream_used' => ran_on.connected
            /\ request'.tool \in QueryOperations =>
                  (response'.kind = "error: API not initialized" <=> ~ran_on.connected)
      ]_vars

C26_Witness ==
    /\ io_pc = "read"
    /\ Len(lines_read) = 2
    /\ lines_read[1].params.arguments.bearer_token = "tokA"
    /\ lines_read[1].params.arguments.club_id = "clubA"
    /\ lines_read[2].params.arguments.bearer_token = Absent
    /\ lines_read[2].params.arguments.club_id = "clubB"
    /\ load_credentials(config_file).bearer_token = "tokC"
    /\ api = [connected |-> TRUE, bearer_token |-> "tokA", club_id |-> "clubA"]
    /\ response.kind = "members"

====
